---- MODULE Spec2Model ----
(***************************************************************************)
(* Real-estate listing extraction (src/src/realEstateTools.js) and the     *)
(* monitor sweep (src/unnamed/part_001, scheduler.js).                     *)
(*                                                                         *)
(* Encoding of JavaScript values:                                          *)
(*   - a string is a sequence of fragments; a template literal             *)
(*     `A ${x} B` is <<"A ">> \o x \o <<" B">>, '' is <<>>;                *)
(*   - an object is a record whose DOMAIN is the set of keys present;      *)
(*   - null is the record JsNull; an array is a sequence;                  *)
(*   - JSON text is the record [json |-> value].                           *)
(* Every action runs the code from one await of an external collaborator  *)
(* to the next one.                                                        *)
(***************************************************************************)
EXTENDS Integers, Sequences, FiniteSets, TLC

\* ---------------------------------------------------------------- bounds
MaxItems == 2
MaxPrices == 11
MaxOther == 1
MaxCards == 2

\* ------------------------------------------------------- program constants
BatchSize == 100
ListingChargeCap == 20
PatternFloor == 10

\* --------------------------------------------------------------- strings
Str(s) == <<s>>
EmptyStr == <<>>
Truthy(s) == s # <<>>

\* sub occurs in s as a contiguous run of fragments
Contains(s, sub) ==
    \E i \in 0..(Len(s) - Len(sub)) :
        \A k \in 1..Len(sub) : s[i + k] = sub[k]

JsNull == [jsnull |-> TRUE]
IsNull(v) == "jsnull" \in DOMAIN v

\* a || b || ... || dflt over the keys of an object, first truthy wins
FirstTruthy(item, keys, dflt) ==
    LET hit == {i \in 1..Len(keys) : keys[i] \in DOMAIN item /\ Truthy(item[keys[i]])}
    IN  IF hit = {} THEN dflt
        ELSE item[keys[CHOOSE i \in hit : \A j \in hit : i <= j]]

JSONstringify(v) == [json |-> v]
JSONparse(s) == s.json

\* ------------------------------------------------------------- criteria
Sources == {"zillow", "realtor", "redfin", "any"}

Criteria ==
    [source : Sources, forceFallback : BOOLEAN, maxResults : {1, 10}]

\* ------------------------------------------------- tier 1: the listing mapper
RawItems ==
    { [name |-> Str("n1"), price |-> Str("$1"), detailUrl |-> Str("u1"), beds |-> Str("3")],
      [address |-> Str("a2"), listPrice |-> Str("$2"), url |-> Str("u2"), bedrooms |-> EmptyStr],
      [description |-> Str("d3")],
      JsNull }

\* what Actor.client.dataset(..).listItems() can resolve to
DatasetResponses ==
    { [other |-> TRUE] } \cup
    { [items |-> s] : s \in UNION { [1..n -> RawItems] : n \in 0..MaxItems } }

MapItem(item, source) ==
    [ title |-> FirstTruthy(item, <<"name", "address">>, Str("Property Listing")),
      price |-> FirstTruthy(item, <<"price", "listPrice">>, Str("Price not specified")),
      address |-> FirstTruthy(item, <<"address", "streetAddress">>, Str("Address not specified")),
      details |->
        [ bedrooms |-> FirstTruthy(item, <<"bedrooms", "beds">>, Str("Not specified")),
          bathrooms |-> FirstTruthy(item, <<"bathrooms", "baths">>, Str("Not specified")),
          squareFeet |-> FirstTruthy(item, <<"livingArea", "sqft">>, Str("Not specified")) ],
      description |-> FirstTruthy(item, <<"description">>, EmptyStr),
      url |-> FirstTruthy(item, <<"detailUrl", "url">>, EmptyStr),
      source |-> Str(source),
      imageUrl |-> FirstTruthy(item, <<"imgSrc", "imageUrl">>, EmptyStr),
      listingAgent |-> FirstTruthy(item, <<"brokerName", "agent">>, Str("Not specified")),
      listingStatus |-> FirstTruthy(item, <<"homeStatus", "status">>, Str("For Sale")) ]

\* resp is the dataset response; items = resp.items, undefined when absent
ItemsDefined(resp) == "items" \in DOMAIN resp

MapperThrows(resp) ==
    \/ ~ItemsDefined(resp)
    \/ \E i \in 1..Len(resp.items) : IsNull(resp.items[i])

MapperMessage(resp) ==
    IF ~ItemsDefined(resp) THEN Str("items is not iterable")
    ELSE Str("Cannot read properties of null")

MapperFailure(resp) ==
    JSONstringify([count |-> 0, listings |-> <<>>, error |-> MapperMessage(resp)])

\* mutant: each listing is put in front of the ones already built
processRealEstateListings_unshift(resp, source) ==
    IF MapperThrows(resp) THEN MapperFailure(resp)
    ELSE LET n == Len(resp.items)
             listings == [i \in 1..n |-> MapItem(resp.items[n + 1 - i], source)]
         IN  JSONstringify([count |-> Len(listings), listings |-> listings])

\* mutant: the catch block reports the listings built before the failing item
processRealEstateListings_keepPartial(resp, source) ==
    IF ~ItemsDefined(resp) THEN MapperFailure(resp)
    ELSE LET bad == {i \in 1..Len(resp.items) : IsNull(resp.items[i])}
             n == IF bad = {} THEN Len(resp.items)
                  ELSE (CHOOSE i \in bad : \A j \in bad : i <= j) - 1
             listings == [i \in 1..n |-> MapItem(resp.items[i], source)]
         IN  IF bad = {}
             THEN JSONstringify([count |-> n, listings |-> listings])
             ELSE JSONstringify([count |-> n, listings |-> listings,
                                 error |-> MapperMessage(resp)])

processRealEstateListings(resp, source) ==
    IF MapperThrows(resp) THEN MapperFailure(resp)
    ELSE LET listings == [i \in 1..Len(resp.items) |-> MapItem(resp.items[i], source)]
         IN  JSONstringify([count |-> Len(listings), listings |-> listings])

CeilDiv(n, d) == (n + d - 1) \div d
Min(a, b) == IF a <= b THEN a ELSE b
Max(a, b) == IF a >= b THEN a ELSE b
Repeat(x, n) == [i \in 1..n |-> x]

\* the charge events of the tier-1 success path, in the order they are awaited
ChargePlan(resp, source) ==
    IF ~ItemsDefined(resp) THEN <<>>
    ELSE IF Len(resp.items) > 0
    THEN Repeat("data-volume", CeilDiv(Len(resp.items), BatchSize))
         \o (IF source \in {"redfin", "realtor"} THEN <<"premium-source">> ELSE <<>>)
         \o Repeat("listing-found", Min(Len(resp.items), ListingChargeCap))
    ELSE <<>>

\* ------------------------------------------- model-extraction sub-tier
\* The model's reply is a sequence of lexical tokens: the fence "```json\n",
\* the fence "\n```", "[", "]", ",", a JSON value (an object with at least one
\* key, or null) and prose.
Tok(t) == [t |-> t]
Val(v) == [t |-> "value", v |-> v]

LlmItem1 == [title |-> Str("t1"), price |-> Str("$1"), url |-> Str("u1"), bedrooms |-> Str("3")]
LlmItem2 == [address |-> Str("a2"), link |-> Str("u2"), beds |-> Str("2")]

Responses ==
    { <<Tok("prose"), Tok("fence_open"), Tok("["), Val(LlmItem1), Tok(","), Val(LlmItem2),
        Tok("]"), Tok("fence_close")>>,
      <<Tok("fence_open"), Val(LlmItem2), Tok("fence_close")>>,
      <<Tok("fence_open"), Tok("["), Val(LlmItem1), Tok("fence_close")>>,
      <<Tok("prose"), Tok("["), Val(LlmItem1), Tok(","), Val(LlmItem2), Tok("]")>>,
      <<Tok("["), Val(LlmItem1), Tok("]")>>,
      <<Tok("prose")>>,
      <<Tok("fence_open"), Tok("["), Tok("]"), Tok("fence_close")>>,
      <<Tok("fence_open"), Tok("fence_close")>>,
      <<Tok("fence_open"), Tok("prose"), Tok("fence_close")>>,
      <<Tok("fence_open"), Tok("["), Val(JsNull), Tok("]"), Tok("fence_close")>> }

NoMatch == [matched |-> FALSE]

\* responseText.match(/```json\n([\s\S]*?)\n```/): leftmost opening fence that
\* has a closing fence after it, lazily up to the first such closing fence
FenceMatch(text) ==
    LET opens == {i \in 1..Len(text) :
                    /\ text[i].t = "fence_open"
                    /\ \E j \in (i + 1)..Len(text) : text[j].t = "fence_close"}
    IN  IF opens = {} THEN NoMatch
        ELSE LET i == CHOOSE x \in opens : \A y \in opens : x <= y
                 closes == {j \in (i + 1)..Len(text) : text[j].t = "fence_close"}
                 j == CHOOSE x \in closes : \A y \in closes : x <= y
             IN  [matched |-> TRUE, whole |-> SubSeq(text, i, j),
                  group |-> SubSeq(text, i + 1, j - 1)]

\* responseText.match(/\[\s*\{\s*".*?"\s*:/s): "[" followed by the start of an
\* object up to the colon after its first key; the match has no group
BareMatch(text) ==
    LET hits == {i \in 1..(Len(text) - 1) :
                    /\ text[i].t = "["
                    /\ text[i + 1].t = "value"
                    /\ ~IsNull(text[i + 1].v)}
    IN  IF hits = {} THEN NoMatch
        ELSE [matched |-> TRUE, whole |-> <<Tok("["), Tok("objprefix")>>, group |-> <<>>]

StartsWith(toks, t) == Len(toks) > 0 /\ toks[1].t = t
EndsWith(toks, t) == Len(toks) > 0 /\ toks[Len(toks)].t = t

\* JSON.parse on a token sequence
IsJsonArray(toks) ==
    /\ Len(toks) >= 2
    /\ toks[1].t = "["
    /\ toks[Len(toks)].t = "]"
    /\ LET n == Len(toks) - 2
       IN  /\ n = 0 \/ n % 2 = 1
           /\ \A k \in 1..n :
                 IF k % 2 = 1 THEN toks[k + 1].t = "value" ELSE toks[k + 1].t = ","

IsJsonValue(toks) == Len(toks) = 1 /\ toks[1].t = "value"

JsonParses(toks) == IsJsonArray(toks) \/ IsJsonValue(toks)

\* Array.isArray(parsed) ? parsed : [parsed]
ParsedListings(toks) ==
    IF IsJsonArray(toks)
    THEN LET n == (Len(toks) - 1) \div 2
         IN  [k \in 1..n |-> toks[2 * k].v]
    ELSE <<toks[1].v>>

FormatLlmItem(item, source, modelUsed) ==
    [ title |-> FirstTruthy(item, <<"title", "address">>, Str("Property Listing")),
      price |-> FirstTruthy(item, <<"price">>, Str("Price not specified")),
      address |-> FirstTruthy(item, <<"address">>, Str("Address not specified")),
      details |->
        [ bedrooms |-> FirstTruthy(item, <<"bedrooms", "beds">>, Str("Not specified")),
          bathrooms |-> FirstTruthy(item, <<"bathrooms", "baths">>, Str("Not specified")),
          squareFeet |-> FirstTruthy(item, <<"squareFeet", "sqft", "area">>, Str("Not specified")) ],
      description |-> FirstTruthy(item, <<"description">>, EmptyStr),
      url |-> FirstTruthy(item, <<"url", "link">>, EmptyStr),
      source |-> <<source, " (", modelUsed, " extraction)">> ]

processLLMResponse(responseText, source, modelUsed) ==
    LET m1 == FenceMatch(responseText)
        jsonMatch == IF m1.matched THEN m1 ELSE BareMatch(responseText)
    IN  IF ~jsonMatch.matched THEN JsNull
        ELSE LET picked == IF Len(jsonMatch.group) > 0 THEN jsonMatch.group
                           ELSE jsonMatch.whole
                 jsonText == IF StartsWith(picked, "[") /\ ~EndsWith(picked, "]")
                             THEN Append(picked, Tok("]"))
                             ELSE picked
             IN  IF ~JsonParses(jsonText) THEN JsNull
                 ELSE LET listings == ParsedListings(jsonText)
                      IN  IF \E k \in 1..Len(listings) : IsNull(listings[k])
                          THEN JsNull
                          ELSE LET formatted ==
                                     [k \in 1..Len(listings) |->
                                        FormatLlmItem(listings[k], source, modelUsed)]
                               IN  [ count |-> Len(formatted),
                                     listings |-> formatted,
                                     note |-> <<"Results extracted using Puppeteer and ",
                                                modelUsed, " processing">> ]

\* what model.invoke can do: reject, or resolve to a reply
LlmOutcomes ==
    { [raised |-> TRUE] } \cup { [raised |-> FALSE, text |-> r] : r \in Responses }

\* doc is docs[0]; pageContent is undefined when the key is absent
HasContent(doc) == "pageContent" \in DOMAIN doc

\* mutant: the listings are tagged with the model's name instead of its vendor's
extractListingsWithLLM_tagModelName(doc, outcome, source) ==
    IF ~HasContent(doc) \/ outcome.raised THEN JsNull
    ELSE processLLMResponse(outcome.text, source, "gpt-4o")

extractListingsWithLLM(doc, outcome, source) ==
    IF ~HasContent(doc) \/ outcome.raised THEN JsNull
    ELSE processLLMResponse(outcome.text, source, "OpenAI")

\* --------------------------------------------- pattern-extraction sub-tier
\* The rendered text is a sequence of matchable tokens, each of one kind.
TextTok(k, i) == [k |-> k, v |-> <<k, ToString(i)>>]

ContentOf(p, a, b, t, s) ==
    [i \in 1..p |-> TextTok("price", i)] \o [i \in 1..a |-> TextTok("address", i)]
    \o [i \in 1..b |-> TextTok("bd", i)] \o [i \in 1..t |-> TextTok("ba", i)]
    \o [i \in 1..s |-> TextTok("sqft", i)]

Contents ==
    { ContentOf(p, a, b, t, s) :
        p \in 0..MaxPrices, a \in {0, MaxOther}, b \in {0, MaxOther},
        t \in {0, MaxOther}, s \in {0, MaxOther} }

\* [...content.matchAll(pattern)].map(...) for the pattern of one kind
MatchAll(content, kind) ==
    LET hits == SelectSeq(content, LAMBDA tok : tok.k = kind)
    IN  [i \in 1..Len(hits) |-> hits[i].v]

At(list, i, dflt) == IF i <= Len(list) THEN list[i] ELSE dflt

\* lines 451-497: the token lists zipped into listings
PatternListings(content, source) ==
    LET prices == MatchAll(content, "price")
        addresses == MatchAll(content, "address")
        bedrooms == MatchAll(content, "bd")
        bathrooms == MatchAll(content, "ba")
        sqfts == MatchAll(content, "sqft")
        maxEntries ==
           Min(Len(prices),
               Min(Max(Len(addresses), PatternFloor),
                   Min(Max(Len(bedrooms), PatternFloor),
                       Min(Max(Len(bathrooms), PatternFloor),
                           Max(Len(sqfts), PatternFloor)))))
    IN  [i \in 1..maxEntries |->
            [ title |-> <<"Property in ", source>>,
              price |-> At(prices, i, Str("Price not specified")),
              address |-> At(addresses, i, Str("Address not specified")),
              details |->
                [ bedrooms |-> At(bedrooms, i, Str("Not specified")),
                  bathrooms |-> At(bathrooms, i, Str("Not specified")),
                  squareFeet |-> At(sqfts, i, Str("Not specified")) ],
              description |-> <<"Property extracted from ", source,
                                " using pattern matching.">>,
              url |-> EmptyStr,
              source |-> <<source, " (pattern extraction)">> ]]

PatternFailure ==
    JSONstringify([ count |-> 0, listings |-> <<>>,
                    error |-> <<"Pattern matching extraction failed: ",
                                "Cannot read properties of undefined">> ])

\* mutant: a missing address is padded like the detail fields
processDocumentWithPatterns_padAddress(doc, source) ==
    IF ~HasContent(doc) THEN PatternFailure
    ELSE LET built == PatternListings(doc.pageContent, source)
             listings == [i \in 1..Len(built) |->
                            IF built[i].address = Str("Address not specified")
                            THEN [built[i] EXCEPT !.address = Str("Not specified")]
                            ELSE built[i]]
         IN  JSONstringify([ count |-> Len(listings), listings |-> listings,
                             note |-> Str("Results extracted using pattern matching") ])

\* mutant: the count is taken from the price matches, not from the listings built
processDocumentWithPatterns_countPrices(doc, source) ==
    IF ~HasContent(doc) THEN PatternFailure
    ELSE JSONstringify([ count |-> Len(MatchAll(doc.pageContent, "price")),
                         listings |-> PatternListings(doc.pageContent, source),
                         note |-> Str("Results extracted using pattern matching") ])

processDocumentWithPatterns(doc, source) ==
    IF ~HasContent(doc) THEN PatternFailure
    ELSE LET listings == PatternListings(doc.pageContent, source)
         IN  JSONstringify([ count |-> Len(listings), listings |-> listings,
                             note |-> Str("Results extracted using pattern matching") ])

\* ---------------------------------------------------- minimal HTTP tier
AbsHref == <<"http", "s://www.zillow.com/homedetails/1">>
RelHref == Str("/homedetails/2")

\* a listing card of the static page: the text of its first link, the price
\* token of its text ('' when none) and the href of its first link
Cards ==
    { [linkText |-> Str("Home 1"), priceText |-> Str("$1"), href |-> AbsHref],
      [linkText |-> EmptyStr, priceText |-> EmptyStr, href |-> RelHref],
      [linkText |-> Str("Home 3"), priceText |-> Str("$3")] }

HttpOutcomes ==
    { [raised |-> TRUE, message |-> Str("Request failed with status code 403")] } \cup
    { [raised |-> FALSE, cards |-> c] : c \in UNION { [1..n -> Cards] : n \in 0..MaxCards } }

CardListing(card, source) ==
    [ title |-> IF Truthy(card.linkText) THEN card.linkText ELSE Str("Property Listing"),
      price |-> IF Truthy(card.priceText) THEN card.priceText ELSE Str("Price not specified"),
      address |-> Str("Address extraction requires more detailed parsing"),
      details |->
        [ bedrooms |-> Str("Not specified in simple parsing"),
          bathrooms |-> Str("Not specified in simple parsing"),
          squareFeet |-> Str("Not specified in simple parsing") ],
      description |-> Str("Limited information available from simple parsing"),
      url |-> IF "href" \in DOMAIN card /\ Truthy(card.href)
              THEN (IF card.href[1] = "http" THEN card.href
                    ELSE <<"https://", source, ".com">> \o card.href)
              ELSE EmptyStr,
      source |-> <<source, " (simple parsing fallback)">> ]

SimpleListings(cards, source) ==
    [i \in 1..Len(cards) |-> CardListing(cards[i], source)]

SimpleNote == Str("Results from simple parsing fallback may be limited in detail")

\* mutant: the catch reports the empty result without the error field
simpleScrapingFallback_noError(outcome, source) ==
    IF outcome.raised
    THEN JSONstringify([ count |-> 0, listings |-> <<>>, note |-> SimpleNote ])
    ELSE JSONstringify([ count |-> Len(outcome.cards),
                         listings |-> SimpleListings(outcome.cards, source),
                         note |-> SimpleNote ])

\* simpleScrapingFallback after axios.get settled with outcome
simpleScrapingFallback(outcome, source) ==
    IF outcome.raised
    THEN JSONstringify([ count |-> 0, listings |-> <<>>,
                         error |-> <<"Simple scraping fallback failed: ">> \o outcome.message ])
    ELSE LET listings == SimpleListings(outcome.cards, source)
         IN  JSONstringify([ count |-> Len(listings), listings |-> listings,
                             note |-> SimpleNote ])

\* what loader.load() can do: reject, or resolve to an array of documents
RenderOutcomes ==
    { [raised |-> TRUE, message |-> Str("Navigation timeout of 60000 ms exceeded")],
      [raised |-> FALSE, docs |-> <<>>],
      [raised |-> FALSE, docs |-> <<[metadata |-> TRUE]>>] } \cup
    { [raised |-> FALSE, docs |-> <<[pageContent |-> c]>>] : c \in Contents }

NoContentMessage == Str("No content was loaded from the page")

\* ------------------------------------ processDocumentWithPatterns alone
VARIABLES
    ptPc,       \* "init", then "done" once the function was applied
    ptContent,  \* the rendered text
    ptResult    \* the JSON text returned

ptVars == <<ptPc, ptContent, ptResult>>

FewTokens == 5
ManyTokens == 11

\* texts with up to MaxPrices price tokens and none, one, a few or more than
\* PatternFloor tokens of each other kind
PatternContents ==
    LET counts == {0, MaxOther, FewTokens, ManyTokens}
    IN  { ContentOf(p, a, b, t, s) :
            p \in 0..MaxPrices, a \in counts, b \in counts, t \in counts, s \in counts }

PtInit ==
    /\ ptPc = "init"
    /\ ptContent \in PatternContents
    /\ ptResult = JSONstringify(JsNull)

PtIdle ==
    /\ ptPc = "idle"
    /\ ptContent = <<>>
    /\ ptResult = JSONstringify(JsNull)

PatternExtract ==
    /\ ptPc = "init"
    /\ ptPc' = "done"
    /\ ptResult' = processDocumentWithPatterns([pageContent |-> ptContent], "zillow")
    /\ UNCHANGED ptContent

\* ======================================================================
\* One call of searchRealEstateListingsTool.func (extract)
\* ======================================================================
VARIABLES
    pc,           \* the await the call is suspended at, or "returned"/"thrown"
    env,          \* process.env: which of the two keys are set
    crit,         \* the criteria the call was made with
    listings,     \* tier 1: the mapper's JSON text, held while charging
    queue,        \* tier 1: the charge events still to be awaited
    renderError,  \* the error caught at line 427, an object with its message
    doc,          \* docs[0], held across the model call
    ret,          \* how the call ended
    log           \* history: every invocation and settlement of a collaborator

exVars == <<pc, env, crit, listings, queue, renderError, doc, ret, log>>

NoValue == [none |-> TRUE]
Running == [kind |-> "running"]

Invoke(op) == [op |-> op, ev |-> "invoke"]
Resolve(op) == [op |-> op, ev |-> "resolve"]
Reject(op, m) == [op |-> op, ev |-> "reject", message |-> m]
\* an error thrown by the program's own code while it handles op's result
Throw(op, m) == [op |-> op, ev |-> "throw", message |-> m]
ResolveWith(op, v) == [op |-> op, ev |-> "resolve", value |-> v]
InvokeCharge(name) == [op |-> "charge", ev |-> "invoke", name |-> name]
SettleOf(op, outcome) ==
    IF outcome.raised THEN Reject(op, outcome.message) ELSE Resolve(op)

Invocations(op) == {i \in 1..Len(log) : log[i].op = op /\ log[i].ev = "invoke"}
Rejections(op) == {i \in 1..Len(log) : log[i].op = op /\ log[i].ev = "reject"}
Resolutions(op) == {i \in 1..Len(log) : log[i].op = op /\ log[i].ev = "resolve"}
Throws(op) == {i \in 1..Len(log) : log[i].op = op /\ log[i].ev = "throw"}

UpstreamOutcomes ==
    { [raised |-> TRUE, message |-> Str("Actor run failed")], [raised |-> FALSE] }

ListItemsOutcomes ==
    { [raised |-> TRUE, message |-> Str("Dataset was not found")] } \cup
    { [raised |-> FALSE, resp |-> r] : r \in DatasetResponses }

ChargeOutcomes ==
    { [raised |-> TRUE, message |-> Str("Charging failed")], [raised |-> FALSE] }

ExInit ==
    /\ pc = "start"
    /\ env \in [APIFY_TOKEN : BOOLEAN, OPENAI_API_KEY : BOOLEAN]
    /\ crit \in Criteria
    /\ listings = NoValue
    /\ queue = <<>>
    /\ renderError = NoValue
    /\ doc = NoValue
    /\ ret = Running
    /\ log = <<>>

\* return value: the locals of the call go out of scope
Return(value, by, events) ==
    /\ pc' = "returned"
    /\ ret' = [kind |-> "returned", value |-> value, by |-> by]
    /\ log' = log \o events
    /\ listings' = NoValue
    /\ queue' = <<>>
    /\ renderError' = NoValue
    /\ doc' = NoValue
    /\ UNCHANGED <<env, crit>>

\* fallbackToPuppeteerWebBaseLoader up to `await loader.load()`
fallbackToPuppeteerWebBaseLoader(events) ==
    /\ pc' = "render"
    /\ log' = log \o events \o <<Invoke("render")>>
    /\ listings' = NoValue
    /\ queue' = <<>>
    /\ UNCHANGED <<env, crit, renderError, doc, ret>>

\* the catch of the tier-1 try: `await Actor.charge({ eventName: 'fallback-extraction' })`
Tier1Catch(events) ==
    /\ pc' = "fbcharge"
    /\ log' = log \o events \o <<InvokeCharge("fallback-extraction")>>
    /\ listings' = NoValue
    /\ queue' = <<>>
    /\ UNCHANGED <<env, crit, renderError, doc, ret>>

\* ------------------------------------------------ the tool's input schema
\* raw inputs of searchRealEstateListingsTool.invoke: a location, the
\* forceFallback flag, maxResults, and minPrice / maxPrice when given
Prices == {0 - 1, 1, 2}
RawInput(forceFallback, maxResults, priceKeys, lo, hi) ==
    [k \in {"location", "forceFallback", "maxResults"} \cup priceKeys |->
        CASE k = "location" -> Str("Seattle, WA")
          [] k = "forceFallback" -> forceFallback
          [] k = "maxResults" -> maxResults
          [] k = "minPrice" -> lo
          [] k = "maxPrice" -> hi]
RawInputs ==
    { RawInput(ff, mr, keys, lo, hi) :
        ff \in BOOLEAN, mr \in {0, 10}, keys \in SUBSET {"minPrice", "maxPrice"},
        lo \in Prices, hi \in Prices }

\* the schema of lines 15-34 on a raw input: location a string, the prices
\* integers when present, maxResults a positive integer
SchemaAccepts(input) ==
    /\ "location" \in DOMAIN input
    /\ "minPrice" \in DOMAIN input => input.minPrice \in Int
    /\ "maxPrice" \in DOMAIN input => input.maxPrice \in Int
    /\ "maxResults" \in DOMAIN input => (input.maxResults \in Int /\ input.maxResults > 0)
    /\ "forceFallback" \in DOMAIN input => input.forceFallback \in BOOLEAN

\* the parsed input: the keys given, and the defaults of those left out
SchemaParse(input) ==
    [k \in DOMAIN input \cup {"source", "forceFallback", "maxResults"} |->
        IF k \in DOMAIN input THEN input[k]
        ELSE CASE k = "source" -> "any"
               [] k = "forceFallback" -> FALSE
               [] k = "maxResults" -> 10]

SchemaMessage == Str("Received tool input did not match expected schema")

\* searchRealEstateListingsTool.invoke(input): the structured tool validates
\* the input against its schema and hands the parsed criteria to func
invoke ==
    /\ pc = "input"
    /\ IF SchemaAccepts(crit)
       THEN /\ pc' = "start"
            /\ crit' = SchemaParse(crit)
            /\ UNCHANGED ret
       ELSE /\ pc' = "thrown"
            /\ ret' = [kind |-> "thrown", message |-> SchemaMessage]
            /\ UNCHANGED crit
    /\ UNCHANGED <<env, listings, queue, renderError, doc, log>>

\* mutant: the forceFallback test is dropped, the upstream actor is always called
func_ignoreForce ==
    /\ pc = "start"
    /\ IF ~env.APIFY_TOKEN
       THEN /\ pc' = "thrown"
            /\ ret' = [kind |-> "thrown",
                       message |-> Str("APIFY_TOKEN is required but not set in your environment variables")]
            /\ UNCHANGED <<env, crit, listings, queue, renderError, doc, log>>
       ELSE /\ pc' = "call"
            /\ log' = Append(log, Invoke("upstream"))
            /\ UNCHANGED <<env, crit, listings, queue, renderError, doc, ret>>

\* func from its entry to its first await
func ==
    /\ pc = "start"
    /\ IF ~env.APIFY_TOKEN
       THEN /\ pc' = "thrown"
            /\ ret' = [kind |-> "thrown",
                       message |-> Str("APIFY_TOKEN is required but not set in your environment variables")]
            /\ UNCHANGED <<env, crit, listings, queue, renderError, doc, log>>
       ELSE IF crit.forceFallback
       THEN fallbackToPuppeteerWebBaseLoader(<<>>)
       ELSE /\ pc' = "call"
            /\ log' = Append(log, Invoke("upstream"))
            /\ UNCHANGED <<env, crit, listings, queue, renderError, doc, ret>>

\* `await Actor.call(actorId, input)` settles
ActorCallSettles ==
    /\ pc = "call"
    /\ \E outcome \in UpstreamOutcomes :
         IF outcome.raised
         THEN Tier1Catch(<<SettleOf("upstream", outcome)>>)
         ELSE /\ pc' = "dataset"
              /\ log' = log \o <<Resolve("upstream"), Invoke("dataset")>>
              /\ UNCHANGED <<env, crit, listings, queue, renderError, doc, ret>>

\* mutant: a failed dataset fetch is not caught, it ends the call
ListItemsSettles_uncaught ==
    /\ pc = "dataset"
    /\ \E outcome \in ListItemsOutcomes :
         IF outcome.raised
         THEN /\ pc' = "thrown"
              /\ ret' = [kind |-> "thrown", message |-> outcome.message]
              /\ log' = Append(log, SettleOf("dataset", outcome))
              /\ UNCHANGED <<env, crit, listings, queue, renderError, doc>>
         ELSE LET mapped == processRealEstateListings(outcome.resp, crit.source)
                  plan == ChargePlan(outcome.resp, crit.source)
                  events == <<ResolveWith("dataset", outcome.resp)>>
                            \o (IF MapperThrows(outcome.resp)
                                THEN <<Throw("mapper", MapperMessage(outcome.resp))>>
                                ELSE <<>>)
              IN  IF plan = <<>>
                  THEN Return(mapped, "tier1", events)
                  ELSE /\ pc' = "charge"
                       /\ listings' = mapped
                       /\ queue' = Tail(plan)
                       /\ log' = log \o events \o <<InvokeCharge(Head(plan))>>
                       /\ UNCHANGED <<env, crit, renderError, doc, ret>>

\* `await Actor.client.dataset(..).listItems()` settles; then the mapper and
\* the first charge of the data-volume block
ListItemsSettles ==
    /\ pc = "dataset"
    /\ \E outcome \in ListItemsOutcomes :
         IF outcome.raised
         THEN Tier1Catch(<<SettleOf("dataset", outcome)>>)
         ELSE LET mapped == processRealEstateListings(outcome.resp, crit.source)
                  plan == ChargePlan(outcome.resp, crit.source)
                  events == <<ResolveWith("dataset", outcome.resp)>>
                            \o (IF MapperThrows(outcome.resp)
                                THEN <<Throw("mapper", MapperMessage(outcome.resp))>>
                                ELSE <<>>)
              IN  IF plan = <<>>
                  THEN Return(mapped, "tier1", events)
                  ELSE /\ pc' = "charge"
                       /\ listings' = mapped
                       /\ queue' = Tail(plan)
                       /\ log' = log \o events \o <<InvokeCharge(Head(plan))>>
                       /\ UNCHANGED <<env, crit, renderError, doc, ret>>

\* one `await Actor.charge(..)` of the data-volume block settles
ChargeSettles ==
    /\ pc = "charge"
    /\ \E outcome \in ChargeOutcomes :
         IF ~outcome.raised /\ queue # <<>>
         THEN /\ queue' = Tail(queue)
              /\ log' = log \o <<Resolve("charge"), InvokeCharge(Head(queue))>>
              /\ UNCHANGED <<pc, env, crit, listings, renderError, doc, ret>>
         ELSE Return(listings, "tier1", <<SettleOf("charge", outcome)>>)

\* mutant: the fallback-extraction charge is awaited outside a try
FallbackChargeSettles_uncaught ==
    /\ pc = "fbcharge"
    /\ \E outcome \in ChargeOutcomes :
         IF outcome.raised
         THEN /\ pc' = "thrown"
              /\ ret' = [kind |-> "thrown", message |-> outcome.message]
              /\ log' = Append(log, SettleOf("charge", outcome))
              /\ UNCHANGED <<env, crit, listings, queue, renderError, doc>>
         ELSE fallbackToPuppeteerWebBaseLoader(<<SettleOf("charge", outcome)>>)

\* the fallback-extraction charge settles; its failure is only logged
FallbackChargeSettles ==
    /\ pc = "fbcharge"
    /\ \E outcome \in ChargeOutcomes :
         fallbackToPuppeteerWebBaseLoader(<<SettleOf("charge", outcome)>>)

\* simpleScrapingFallback up to `await axios.get(..)`, entered from the catch
PuppeteerCatch(message, events) ==
    /\ pc' = "http"
    /\ renderError' = [message |-> message]
    /\ log' = log \o events \o <<Invoke("http")>>
    /\ doc' = NoValue
    /\ UNCHANGED <<env, crit, listings, queue, ret>>

\* mutant: the rendered document goes to the pattern sub-tier at once, the
\* model is not asked
LoaderLoadSettles_skipModel ==
    /\ pc = "render"
    /\ \E outcome \in RenderOutcomes :
         IF outcome.raised
         THEN PuppeteerCatch(outcome.message, <<SettleOf("render", outcome)>>)
         ELSE IF Len(outcome.docs) = 0
         THEN PuppeteerCatch(NoContentMessage,
                             <<Resolve("render"), Throw("render", NoContentMessage)>>)
         ELSE Return(processDocumentWithPatterns(outcome.docs[1], crit.source), "pattern",
                     <<Resolve("render")>>)

\* `await loader.load()` settles
LoaderLoadSettles ==
    /\ pc = "render"
    /\ \E outcome \in RenderOutcomes :
         IF outcome.raised
         THEN PuppeteerCatch(outcome.message, <<SettleOf("render", outcome)>>)
         ELSE IF Len(outcome.docs) = 0
         THEN PuppeteerCatch(NoContentMessage,
                             <<Resolve("render"), Throw("render", NoContentMessage)>>)
         ELSE LET d == outcome.docs[1]
              IN  IF HasContent(d) /\ env.OPENAI_API_KEY
                  THEN /\ pc' = "llm"
                       /\ doc' = d
                       /\ log' = log \o <<Resolve("render"), Invoke("model")>>
                       /\ UNCHANGED <<env, crit, listings, queue, renderError, ret>>
                  ELSE \* extractListingsWithLLM threw before the model call
                       Return(processDocumentWithPatterns(d, crit.source), "pattern",
                              <<Resolve("render"),
                                Throw("model", Str("extractListingsWithLLM failed before the call"))>>)

\* mutant: when the model gives no listings the call goes on to the minimal
\* HTTP tier
ModelInvokeSettles_toHttp ==
    /\ pc = "llm"
    /\ \E outcome \in LlmOutcomes :
         LET llmResult == extractListingsWithLLM(doc, outcome, crit.source)
             settled == IF outcome.raised
                        THEN Reject("model", Str("OpenAI request failed"))
                        ELSE ResolveWith("model", outcome.text)
         IN  IF ~IsNull(llmResult) /\ llmResult.count > 0
             THEN Return(JSONstringify(llmResult), "model", <<settled>>)
             ELSE PuppeteerCatch(Str("No listings were extracted"), <<settled>>)

\* `await model.invoke(propertyPrompt)` settles
ModelInvokeSettles ==
    /\ pc = "llm"
    /\ \E outcome \in LlmOutcomes :
         LET llmResult == extractListingsWithLLM(doc, outcome, crit.source)
             settled == IF outcome.raised
                        THEN Reject("model", Str("OpenAI request failed"))
                        ELSE ResolveWith("model", outcome.text)
         IN  IF ~IsNull(llmResult) /\ llmResult.count > 0
             THEN Return(JSONstringify(llmResult), "model", <<settled>>)
             ELSE Return(processDocumentWithPatterns(doc, crit.source), "pattern",
                         <<settled>>)

\* mutant: a failed HTTP request is issued a second time
AxiosGetSettles_retry ==
    /\ pc = "http"
    /\ \E outcome \in HttpOutcomes :
         IF outcome.raised /\ Cardinality(Invocations("http")) < 2
         THEN /\ log' = log \o <<SettleOf("http", outcome), Invoke("http")>>
              /\ UNCHANGED <<pc, env, crit, listings, queue, renderError, doc, ret>>
         ELSE Return(simpleScrapingFallback(outcome, crit.source), "minimal",
                     <<SettleOf("http", outcome)>>)

\* `await axios.get(..)` settles; simpleScrapingFallback catches its own errors
AxiosGetSettles ==
    /\ pc = "http"
    /\ \E outcome \in HttpOutcomes :
         Return(simpleScrapingFallback(outcome, crit.source), "minimal",
                <<SettleOf("http", outcome)>>)

\* ======================================================================
\* findNewListings and shouldRunMonitor / getNextRunTime (scheduler.js)
\* ======================================================================
\* mutant: without earlier listings to compare with, nothing is reported as new
findNewListings_emptyBaseline(currentListings, previousListings) ==
    IF Len(previousListings) = 0 THEN <<>>
    ELSE LET existingUrls == {previousListings[i].url : i \in 1..Len(previousListings)}
         IN  SelectSeq(currentListings, LAMBDA listing : listing.url \notin existingUrls)

\* previousListings is an array here; the caller that passes none is FindNew
findNewListings(currentListings, previousListings) ==
    IF Len(previousListings) = 0 THEN currentListings
    ELSE LET existingUrls == {previousListings[i].url : i \in 1..Len(previousListings)}
         IN  SelectSeq(currentListings, LAMBDA listing : listing.url \notin existingUrls)

\* a timestamp is minutes since the epoch; toISOString and new Date(text)
toISOString(t) == [iso |-> t]
DateOf(text) == text.iso

MinutesPerHour == 60
\* thresholds of shouldRunMonitor, in quarters of an hour (0.25 h, 24 h, 168 h)
RealtimeQuarters == 1
DailyQuarters == 96
WeeklyQuarters == 672

ThresholdQuarters(frequency) ==
    CASE frequency = "realtime" -> RealtimeQuarters
      [] frequency = "daily" -> DailyQuarters
      [] frequency = "weekly" -> WeeklyQuarters
      [] OTHER -> DailyQuarters

Frequencies == {"daily", "weekly", "realtime"}

\* obj[key], with "undefined" for a key the object does not have
Get(obj, key) == IF key \in DOMAIN obj THEN obj[key] ELSE "undefined"

\* !monitorConfig.lastChecked: the key is missing or holds null
NeverChecked(monitorConfig) ==
    "lastChecked" \notin DOMAIN monitorConfig \/ IsNull(monitorConfig.lastChecked)

\* mutant: the test for a monitor that never ran is dropped, and new Date(null)
\* is the epoch
shouldRunMonitor_noGuard(monitorConfig, currentTime) ==
    (currentTime - (IF NeverChecked(monitorConfig) THEN 0
                    ELSE DateOf(monitorConfig.lastChecked))) * 4
        >= ThresholdQuarters(Get(monitorConfig, "frequency")) * MinutesPerHour

\* mutant: the elapsed time has to exceed the threshold
shouldRunMonitor_strict(monitorConfig, currentTime) ==
    IF NeverChecked(monitorConfig) THEN TRUE
    ELSE (currentTime - DateOf(monitorConfig.lastChecked)) * 4
            > ThresholdQuarters(Get(monitorConfig, "frequency")) * MinutesPerHour

\* mutant: half of the threshold is enough
shouldRunMonitor_halfThreshold(monitorConfig, currentTime) ==
    IF NeverChecked(monitorConfig) THEN TRUE
    ELSE (currentTime - DateOf(monitorConfig.lastChecked)) * 8
            >= ThresholdQuarters(Get(monitorConfig, "frequency")) * MinutesPerHour

\* hoursSinceLastCheck >= threshold, both sides multiplied by 4 * 60 minutes
shouldRunMonitor(monitorConfig, currentTime) ==
    IF NeverChecked(monitorConfig) THEN TRUE
    ELSE (currentTime - DateOf(monitorConfig.lastChecked)) * 4
            >= ThresholdQuarters(Get(monitorConfig, "frequency")) * MinutesPerHour

RealtimeMinutes == 15
MinutesPerDay == 1440
WeekDays == 7

\* getNextRunTime reads the clock itself: t is `new Date()` at the call
getNextRunTime(frequency, t) ==
    toISOString(CASE frequency = "realtime" -> t + RealtimeMinutes
                  [] frequency = "daily" -> t + MinutesPerDay
                  [] frequency = "weekly" -> t + WeekDays * MinutesPerDay
                  [] OTHER -> t + MinutesPerDay)

\* --------------------------------------------- shouldRunMonitor alone
VARIABLES
    srPc,      \* "init", then "done" once the function was applied
    srCfg,     \* monitorConfig
    srNow,     \* currentTime
    srResult   \* the value returned

srVars == <<srPc, srCfg, srNow, srResult>>

MaxSlack == 1

\* the times lastChecked holds, and the distances from it to currentTime:
\* around zero and around each threshold
SrChecked == {0, RealtimeMinutes}
SrElapsed ==
    { th + d : th \in {0, RealtimeMinutes, MinutesPerDay, WeekDays * MinutesPerDay},
               d \in (0 - MaxSlack)..MaxSlack }

\* stored configs: lastChecked null or a timestamp; frequency one of the
\* schema's values, another string, or missing
SrConfigs ==
    LET stamps == {JsNull} \cup {toISOString(t) : t \in SrChecked}
    IN  [lastChecked : stamps, frequency : Frequencies \cup {"hourly"}]
        \cup [lastChecked : stamps]

SrInit ==
    /\ srPc = "init"
    /\ srCfg \in SrConfigs
    /\ \E e \in SrElapsed :
         srNow = e + (IF IsNull(srCfg.lastChecked) THEN 0 ELSE DateOf(srCfg.lastChecked))
    /\ srResult = FALSE

SrIdle ==
    /\ srPc = "idle"
    /\ srCfg = [lastChecked |-> JsNull]
    /\ srNow = 0
    /\ srResult = FALSE

ShouldRun ==
    /\ srPc = "init"
    /\ srPc' = "done"
    /\ srResult' = shouldRunMonitor(srCfg, srNow)
    /\ UNCHANGED <<srCfg, srNow>>

\* ---------------------------------------------- findNewListings alone
VARIABLES
    fnPc,        \* "init", then "done" once the function was applied
    fnCurrent,   \* currentListings
    fnGiven,     \* whether previousListings was passed (FALSE: undefined)
    fnPrevious,  \* previousListings when it was passed
    fnResult     \* the value returned

fnVars == <<fnPc, fnCurrent, fnGiven, fnPrevious, fnResult>>

MaxListings == 2

FnListings == [title : {Str("A"), Str("B")}, url : {EmptyStr, Str("u1"), Str("u2")}]
FnSeqs == UNION { [1..n -> FnListings] : n \in 0..MaxListings }

FnInit ==
    /\ fnPc = "init"
    /\ fnCurrent \in FnSeqs
    /\ fnGiven \in BOOLEAN
    /\ fnPrevious \in (IF fnGiven THEN FnSeqs ELSE {<<>>})
    /\ fnResult = <<>>

FnIdle ==
    /\ fnPc = "idle"
    /\ fnCurrent = <<>>
    /\ fnGiven = TRUE
    /\ fnPrevious = <<>>
    /\ fnResult = <<>>

\* findNewListings is applied; an undefined previousListings takes the same
\* branch as an empty one (`!previousListings || !previousListings.length`)
FindNew ==
    /\ fnPc = "init"
    /\ fnPc' = "done"
    /\ fnResult' = findNewListings(fnCurrent, IF fnGiven THEN fnPrevious ELSE <<>>)
    /\ UNCHANGED <<fnCurrent, fnGiven, fnPrevious>>

\* ======================================================================
\* Monitors: the key-value store, monitor creation and the sweep
\* ======================================================================
VARIABLES
    clock,        \* wall-clock time in minutes
    store,        \* the 'real-estate-monitors' store: monitor id -> config
    monitorsList, \* the value stored under 'monitors-list'
    swPc,         \* the await the sweep is suspended at, or "idle"
    swList,       \* the sweep's copy of the list
    swIdx,        \* position of the monitor being processed
    swNow,        \* the sweep's `now`
    swCfg,        \* monitorConfig of the monitor being processed
    swResult,     \* searchResult of the monitor being processed
    swCount,      \* [processed, updated]
    swRet,        \* what the last finished sweep returned
    ids,          \* the monitor ids callers create monitors with
    ticks,        \* history: clock advances
    pollHist,     \* history of the monitors created by the callers (ids), kept
                  \* across sweeps since the monitor's creation: the (id,
                  \* non-empty url) pairs reported as new (alerted) and the
                  \* (id, sweep time) of the last poll that was saved (last)
    failed,       \* history: the monitors whose last poll raised and whose
                  \* config has not been written since
    swHist        \* history of the current sweep: the ids read from the store
                  \* (seen), those handed to the search tool (polled), those
                  \* whose processing raised (errors), those whose config was
                  \* written (saved), those with new listings (novel)

monVars == <<clock, store, monitorsList, swPc, swList, swIdx, swNow, swCfg, swResult,
             swCount, swRet, ids, ticks, failed, pollHist, swHist>>

MaxTicks == 2

MonitorIds == {"m1", "m2"}
Jumps == {RealtimeMinutes - 1, RealtimeMinutes, MinutesPerDay}

Absent(v) == "none" \in DOMAIN v

Listing1 == [title |-> Str("A"), url |-> Str("u1")]
Listing0 == [title |-> Str("C"), url |-> EmptyStr]

\* what searchRealEstateListingsTool.invoke can do in a poll: throw (the
\* token is unset, the tool's schema rejects the stored criteria), or return
\* the JSON text of an ExtractionResult
PollOutcomes ==
    { [raised |-> TRUE, message |-> Str("APIFY_TOKEN is required but not set in your environment variables")] }
    \cup
    { [raised |-> FALSE, value |-> JSONstringify(r)] :
        r \in { [count |-> 1, listings |-> <<Listing1>>],
                [count |-> 2, listings |-> <<Listing1, Listing0>>],
                [count |-> 0, listings |-> <<>>,
                 error |-> <<"Simple scraping fallback failed: ", "Request failed with status code 403">>] } }

StoreOutcomes ==
    { [raised |-> TRUE, message |-> Str("Store request failed")], [raised |-> FALSE] }

\* what Actor.init() and Actor.exit() can do
LifecycleOutcomes ==
    { [raised |-> TRUE, message |-> Str("Actor lifecycle call failed")], [raised |-> FALSE] }

\* the config monitorRealEstateListingsTool.func builds (lines 750-765)
monitoringSetup(id, frequency, t) ==
    [ id |-> id,
      createdAt |-> toISOString(t),
      criteria |-> [location |-> Str("Seattle, WA")],
      frequency |-> frequency,
      lastChecked |-> JsNull,
      lastResults |-> JsNull ]

\* the same config when the caller gave a notification address
monitoringSetupFor(id, frequency, t, notificationEmail) ==
    [k \in DOMAIN monitoringSetup(id, frequency, t) \cup {"notificationEmail"} |->
        IF k = "notificationEmail" THEN notificationEmail
        ELSE monitoringSetup(id, frequency, t)[k]]

NoHist == [seen |-> <<>>, polled |-> <<>>, errors |-> {}, saved |-> {}, novel |-> {}]

NoPolls == [alerted |-> {}, last |-> {}]

\* a poll of monitor id reported newListings as new; the listings without a
\* url are left out of the history
Alerted(hist, id, newListings) ==
    IF id \notin ids THEN hist
    ELSE [hist EXCEPT !.alerted = @ \cup {<<id, newListings[i].url>> :
                                            i \in {j \in 1..Len(newListings) :
                                                     newListings[j].url # EmptyStr}}]

\* the config of monitor id was saved after a poll in the sweep of time now
Polled(hist, id, now) ==
    IF id \notin ids THEN hist
    ELSE [hist EXCEPT !.last = {p \in @ : p[1] # id} \cup {<<id, now>>}]

\* monitor id was created (again): its history starts over
Forget(hist, id) ==
    [alerted |-> {p \in hist.alerted : p[1] # id},
     last |-> {p \in hist.last : p[1] # id}]

\* no monitor has been created yet
MonInit ==
    /\ clock = 0
    /\ store = [id \in MonitorIds |-> NoValue]
    /\ monitorsList = <<>>
    /\ swPc = "idle"
    /\ swList = <<>>
    /\ swIdx = 0
    /\ swNow = 0
    /\ swCfg = NoValue
    /\ swResult = NoValue
    /\ swCount = [processed |-> 0, updated |-> 0]
    /\ swRet = NoValue
    /\ ticks = 0
    /\ failed = {}
    /\ pollHist = NoPolls
    /\ swHist = NoHist

MonIdle ==
    /\ MonInit
    /\ ids = {}

\* time passes, at any point of a sweep or between operations
Tick ==
    /\ ticks < MaxTicks
    /\ \E d \in Jumps : clock' = clock + d
    /\ ticks' = ticks + 1
    /\ UNCHANGED <<store, monitorsList, swPc, swList, swIdx, swNow, swCfg, swResult,
                   swCount, swRet, ids, failed, pollHist, swHist>>

\* six days pass at once: with a day more, a week has gone by
LongTick ==
    /\ ticks < MaxTicks
    /\ clock' = clock + (WeekDays - 1) * MinutesPerDay
    /\ ticks' = ticks + 1
    /\ UNCHANGED <<store, monitorsList, swPc, swList, swIdx, swNow, swCfg, swResult,
                   swCount, swRet, ids, failed, pollHist, swHist>>

InList(list, id) == \E i \in 1..Len(list) : list[i] = id

\* mutant: the id is pushed without the `includes` test
monitorCreate_noIncludes ==
    /\ swPc = "idle"
    /\ \E id \in ids, frequency \in Frequencies, k \in 0..3 :
         LET setup == monitoringSetup(id, frequency, clock)
         IN  /\ store' = IF k >= 1 THEN [store EXCEPT ![id] = setup] ELSE store
             /\ monitorsList' = IF k >= 3 THEN Append(monitorsList, id) ELSE monitorsList
             /\ failed' = IF k >= 1 THEN failed \ {id} ELSE failed
             /\ pollHist' = IF k >= 1 THEN Forget(pollHist, id) ELSE pollHist
    /\ UNCHANGED <<clock, swPc, swList, swIdx, swNow, swCfg, swResult, swCount, swRet,
                   ids, ticks, swHist>>

\* monitorRealEstateListingsTool.func with a caller-supplied monitorId, run
\* while no sweep is in progress; k is the number of store requests that
\* succeed before one fails (3 = none fails)
monitorCreate ==
    /\ swPc = "idle"
    /\ \E id \in ids, frequency \in Frequencies, k \in 0..3 :
         LET setup == monitoringSetup(id, frequency, clock)
         IN  /\ store' = IF k >= 1 THEN [store EXCEPT ![id] = setup] ELSE store
             /\ monitorsList' = IF k >= 3 /\ ~InList(monitorsList, id)
                                THEN Append(monitorsList, id)
                                ELSE monitorsList
             /\ failed' = IF k >= 1 THEN failed \ {id} ELSE failed
             /\ pollHist' = IF k >= 1 THEN Forget(pollHist, id) ELSE pollHist
    /\ UNCHANGED <<clock, swPc, swList, swIdx, swNow, swCfg, swResult, swCount, swRet,
                   ids, ticks, swHist>>

\* processAllMonitors up to `await Actor.init()`
processAllMonitors ==
    /\ swPc = "idle"
    /\ swPc' = "init"
    /\ swCount' = [processed |-> 0, updated |-> 0]
    /\ swRet' = NoValue
    /\ swHist' = NoHist
    /\ UNCHANGED <<clock, store, monitorsList, swList, swIdx, swNow, swCfg, swResult,
                   ids, ticks, failed, pollHist>>

\* `await Actor.init()` settles: it is awaited outside the try, so its error
\* leaves the function at once; otherwise the store is opened and
\* `await store.getValue('monitors-list')` is issued
SweepInitSettles ==
    /\ swPc = "init"
    /\ \E outcome \in LifecycleOutcomes :
         IF outcome.raised
         THEN /\ swPc' = "idle"
              /\ swRet' = [thrown |-> outcome.message]
         ELSE /\ swPc' = "list"
              /\ UNCHANGED swRet
    /\ UNCHANGED <<clock, store, monitorsList, swList, swIdx, swNow, swCfg, swResult,
                   swCount, ids, ticks, failed, pollHist, swHist>>

\* the try block is left, by `return` (value holds the counters) or by the
\* rethrow of the outer catch: the finally block awaits Actor.exit()
SweepEnds(value) ==
    /\ swPc' = "exit"
    /\ swRet' = value
    /\ swList' = <<>>
    /\ swIdx' = 0
    /\ swCfg' = NoValue
    /\ swResult' = NoValue

\* the loop moves on to the next monitor id (`await store.getValue(monitorId)`)
\* or, after the last one, returns the counters; hist is the history of the
\* sweep up to here
NextMonitor(count, hist) ==
    IF swIdx < Len(swList)
    THEN /\ swPc' = "get"
         /\ swIdx' = swIdx + 1
         /\ swCfg' = NoValue
         /\ swResult' = NoValue
         /\ swCount' = count
         /\ swHist' = [hist EXCEPT !.seen = Append(@, swList[swIdx + 1])]
         /\ UNCHANGED <<swList, swRet>>
    ELSE /\ SweepEnds([processed |-> count.processed, updated |-> count.updated])
         /\ swCount' = count
         /\ swHist' = hist

\* the current monitor's processing raised: the per-monitor catch logs it
Caught == [swHist EXCEPT !.errors = @ \cup {swList[swIdx]}]

\* `await store.getValue('monitors-list')` settles
SweepListSettles ==
    /\ swPc = "list"
    /\ \E outcome \in StoreOutcomes :
         IF outcome.raised
         THEN /\ SweepEnds([thrown |-> outcome.message])
              /\ UNCHANGED <<swNow, swCount, swHist>>
         ELSE IF Len(monitorsList) = 0
         THEN /\ SweepEnds([processed |-> 0, updated |-> 0])
              /\ UNCHANGED <<swNow, swCount, swHist>>
         ELSE /\ swPc' = "get"
              /\ swList' = monitorsList
              /\ swIdx' = 1
              /\ swNow' = clock
              /\ swHist' = [swHist EXCEPT !.seen = <<monitorsList[1]>>]
              /\ UNCHANGED <<swCfg, swResult, swCount, swRet>>
    /\ UNCHANGED <<clock, store, monitorsList, ids, ticks, failed, pollHist>>

\* `await store.getValue(monitorId)` settles; then the eligibility test
SweepGetSettles ==
    /\ swPc = "get"
    /\ \E outcome \in StoreOutcomes :
         LET monitorConfig == store[swList[swIdx]]
         IN  IF outcome.raised
             THEN NextMonitor(swCount, Caught)
             ELSE IF Absent(monitorConfig) \/ ~shouldRunMonitor(monitorConfig, swNow)
             THEN NextMonitor(swCount, swHist)
             ELSE /\ swPc' = "poll"
                  /\ swCfg' = monitorConfig
                  /\ swHist' = [swHist EXCEPT !.polled = Append(@, swList[swIdx])]
                  /\ UNCHANGED <<swList, swIdx, swResult, swCount, swRet>>
    /\ UNCHANGED <<clock, store, monitorsList, swNow, ids, ticks, failed, pollHist>>

\* mutant: lastChecked is stamped with the time of the update, not the sweep's now
UpdatedConfig_stampClock(monitorConfig, now, searchResult, t) ==
    [k \in DOMAIN monitorConfig \cup {"nextRun"} |->
        CASE k = "lastChecked" -> toISOString(t)
          [] k = "lastResults" -> searchResult
          [] k = "nextRun" -> getNextRunTime(monitorConfig.frequency, t)
          [] OTHER -> monitorConfig[k]]

\* mutant: the update also stamps createdAt with the sweep's time
UpdatedConfig_touchCreatedAt(monitorConfig, now, searchResult, t) ==
    [k \in DOMAIN monitorConfig \cup {"nextRun"} |->
        CASE k = "lastChecked" -> toISOString(now)
          [] k = "lastResults" -> searchResult
          [] k = "nextRun" -> getNextRunTime(monitorConfig.frequency, t)
          [] k = "createdAt" -> toISOString(now)
          [] OTHER -> monitorConfig[k]]

\* lines 81-83: the config as it is handed to store.setValue
UpdatedConfig(monitorConfig, now, searchResult, t) ==
    [k \in DOMAIN monitorConfig \cup {"nextRun"} |->
        CASE k = "lastChecked" -> toISOString(now)
          [] k = "lastResults" -> searchResult
          [] k = "nextRun" -> getNextRunTime(monitorConfig.frequency, t)
          [] OTHER -> monitorConfig[k]]

PreviousListings(monitorConfig) ==
    IF IsNull(monitorConfig.lastResults) THEN <<>>
    ELSE JSONparse(monitorConfig.lastResults).listings

\* the poll returned searchResult: the diff, the counters and either the alert
\* charge or the save (lines 60-86)
PollReturned(searchResult) ==
    LET parsedResult == JSONparse(searchResult)
        newListings == findNewListings(parsedResult.listings, PreviousListings(swCfg))
    IN  /\ swCount' = [swCount EXCEPT !.processed = @ + 1]
        /\ swResult' = searchResult
        /\ IF Len(newListings) > 0
           THEN /\ swPc' = "notify"
                /\ swHist' = [swHist EXCEPT !.novel = @ \cup {swList[swIdx]}]
                /\ pollHist' = Alerted(pollHist, swList[swIdx], newListings)
                /\ UNCHANGED swCfg
           ELSE /\ swPc' = "save"
                /\ swCfg' = UpdatedConfig(swCfg, swNow, searchResult, clock)
                /\ UNCHANGED <<swHist, pollHist>>
        /\ UNCHANGED <<swList, swIdx, swRet, failed, store>>

\* `await searchRealEstateListingsTool.invoke(..)` settles; a throw is caught
\* and logged by the per-monitor catch
SweepPollSettles ==
    /\ swPc = "poll"
    /\ \E outcome \in PollOutcomes :
         IF outcome.raised
         THEN /\ failed' = failed \cup {swList[swIdx]}
              /\ UNCHANGED pollHist
              /\ UNCHANGED store
              /\ NextMonitor(swCount, Caught)
         ELSE PollReturned(outcome.value)
    /\ UNCHANGED <<clock, monitorsList, swNow, ids, ticks>>

\* notifyUser: `await Actor.charge({ eventName: 'monitor-alert' })` settles,
\* its failure is only logged
SweepNotifySettles ==
    /\ swPc = "notify"
    /\ \E outcome \in ChargeOutcomes :
         /\ swPc' = "save"
         /\ swCount' = [swCount EXCEPT !.updated = @ + 1]
         /\ swCfg' = UpdatedConfig(swCfg, swNow, swResult, clock)
    /\ UNCHANGED <<clock, store, monitorsList, swList, swIdx, swNow, swResult, swRet,
                   ids, ticks, failed, pollHist, swHist>>

\* mutant: a failed store write is not caught per monitor, it ends the sweep
SweepSaveSettles_rethrow ==
    /\ swPc = "save"
    /\ \E outcome \in StoreOutcomes :
         IF outcome.raised
         THEN /\ UNCHANGED <<store, failed, pollHist, swCount>>
              /\ SweepEnds([thrown |-> outcome.message])
              /\ swHist' = Caught
         ELSE /\ store' = [store EXCEPT ![swList[swIdx]] = swCfg]
              /\ failed' = failed \ {swList[swIdx]}
              /\ pollHist' = Polled(pollHist, swList[swIdx], swNow)
              /\ NextMonitor(swCount, [swHist EXCEPT !.saved = @ \cup {swList[swIdx]}])
    /\ UNCHANGED <<clock, monitorsList, swNow, ids, ticks>>

\* mutant: after a failed store write the monitor is polled a second time
SweepSaveSettles_repoll ==
    /\ swPc = "save"
    /\ \E outcome \in StoreOutcomes :
         IF outcome.raised /\ Len(SelectSeq(swHist.polled, LAMBDA id : id = swList[swIdx])) < 2
         THEN /\ swPc' = "poll"
              /\ swHist' = [swHist EXCEPT !.polled = Append(@, swList[swIdx])]
              /\ swCfg' = store[swList[swIdx]]
              /\ UNCHANGED <<store, failed, pollHist, swList, swIdx, swResult, swCount, swRet>>
         ELSE IF outcome.raised
         THEN /\ UNCHANGED <<store, failed, pollHist>>
              /\ NextMonitor(swCount, Caught)
         ELSE /\ store' = [store EXCEPT ![swList[swIdx]] = swCfg]
              /\ failed' = failed \ {swList[swIdx]}
              /\ pollHist' = Polled(pollHist, swList[swIdx], swNow)
              /\ NextMonitor(swCount, [swHist EXCEPT !.saved = @ \cup {swList[swIdx]}])
    /\ UNCHANGED <<clock, monitorsList, swNow, ids, ticks>>

\* `await store.setValue(monitorId, monitorConfig)` settles
SweepSaveSettles ==
    /\ swPc = "save"
    /\ \E outcome \in StoreOutcomes :
         IF outcome.raised
         THEN /\ UNCHANGED <<store, failed, pollHist>>
              /\ NextMonitor(swCount, Caught)
         ELSE /\ store' = [store EXCEPT ![swList[swIdx]] = swCfg]
              /\ failed' = failed \ {swList[swIdx]}
              /\ pollHist' = Polled(pollHist, swList[swIdx], swNow)
              /\ NextMonitor(swCount, [swHist EXCEPT !.saved = @ \cup {swList[swIdx]}])
    /\ UNCHANGED <<clock, monitorsList, swNow, ids, ticks>>

\* `await Actor.exit()` in the finally block settles: its error replaces the
\* value the try block was returning
SweepExitSettles ==
    /\ swPc = "exit"
    /\ swPc' = "idle"
    /\ \E outcome \in LifecycleOutcomes :
         swRet' = IF outcome.raised THEN [thrown |-> outcome.message] ELSE swRet
    /\ UNCHANGED <<clock, store, monitorsList, swList, swIdx, swNow, swCfg, swResult,
                   swCount, ids, ticks, failed, pollHist, swHist>>

\* ======================================================================
\* monitorRealEstateListingsTool.func, one store request at a time
\* ======================================================================
VARIABLES
    crPc,     \* per caller: the await its create call is suspended at
    crSetup,  \* per caller: the monitoringSetup its call built
    crList,   \* per caller: its copy of monitors-list
    crRet,    \* per caller: what its call returned or threw
    crWrote   \* history, per caller: the store keys its call has written

crVars == <<crPc, crSetup, crList, crRet, crWrote>>

\* the concurrent callers and the monitorId each one passes
Callers == {"c1", "c2"}
IdOf(c) == IF c = "c1" THEN "m1" ELSE "m2"

CrInit ==
    /\ crPc = [c \in Callers |-> "idle"]
    /\ crSetup = [c \in Callers |-> NoValue]
    /\ crList = [c \in Callers |-> <<>>]
    /\ crRet = [c \in Callers |-> NoValue]
    /\ crWrote = [c \in Callers |-> {}]

CrIdle == CrInit

\* what the create calls leave alone in the monitor state
CrFrame ==
    UNCHANGED <<clock, swPc, swList, swIdx, swNow, swCfg, swResult, swCount, swRet,
                ids, ticks, swHist>>

StoreUntouched == UNCHANGED <<store, monitorsList, failed, pollHist>>

\* lines 788-791: the text returned after the monitor was set up
SuccessText(setup) ==
    << "Successfully set up monitoring for real estate listings in ",
       setup.criteria.location[1],
       ". You will be notified at ",
       IF "notificationEmail" \in DOMAIN setup THEN setup.notificationEmail[1]
       ELSE "your registered email",
       " ",
       IF setup.frequency = "realtime" THEN "as soon as" ELSE setup.frequency,
       " new matching properties become available. Your monitor ID is: ",
       setup.id >>

\* line 795: the text returned by the catch
ErrorText(message) == <<"Error setting up monitoring: ">> \o message

\* the catch at lines 793-796: the call returns the error text
CreateFails(c, message) ==
    /\ crPc' = [crPc EXCEPT ![c] = "done"]
    /\ crRet' = [crRet EXCEPT ![c] = [kind |-> "returned", value |-> ErrorText(message)]]
    /\ UNCHANGED <<crSetup, crList, crWrote>>
    /\ StoreUntouched

\* func up to `await Actor.openKeyValueStore(..)`: the token test and the
\* config of lines 750-765
CreateCall(c) ==
    /\ crPc[c] = "idle"
    /\ \E token \in BOOLEAN, frequency \in Frequencies :
         IF ~token
         THEN /\ crPc' = [crPc EXCEPT ![c] = "done"]
              /\ crRet' = [crRet EXCEPT ![c] =
                             [kind |-> "thrown",
                              message |-> Str("APIFY_TOKEN is required but not set in your environment variables")]]
              /\ UNCHANGED crSetup
         ELSE /\ crPc' = [crPc EXCEPT ![c] = "open"]
              /\ crSetup' = [crSetup EXCEPT ![c] = monitoringSetup(IdOf(c), frequency, clock)]
              /\ UNCHANGED crRet
    /\ UNCHANGED <<crList, crWrote>>
    /\ StoreUntouched
    /\ CrFrame

\* `await Actor.openKeyValueStore('real-estate-monitors')` settles
CreateOpenSettles(c) ==
    /\ crPc[c] = "open"
    /\ \E outcome \in StoreOutcomes :
         IF outcome.raised
         THEN CreateFails(c, outcome.message)
         ELSE /\ crPc' = [crPc EXCEPT ![c] = "set"]
              /\ UNCHANGED <<crSetup, crList, crRet, crWrote>>
              /\ StoreUntouched
    /\ CrFrame

\* `await store.setValue(uniqueMonitorId, monitoringSetup)` settles
CreateSetSettles(c) ==
    /\ crPc[c] = "set"
    /\ \E outcome \in StoreOutcomes :
         IF outcome.raised
         THEN CreateFails(c, outcome.message)
         ELSE /\ crPc' = [crPc EXCEPT ![c] = "get"]
              /\ store' = [store EXCEPT ![IdOf(c)] = crSetup[c]]
              /\ failed' = failed \ {IdOf(c)}
              /\ pollHist' = Forget(pollHist, IdOf(c))
              /\ crWrote' = [crWrote EXCEPT ![c] = @ \cup {IdOf(c)}]
              /\ UNCHANGED <<crSetup, crList, crRet, monitorsList>>
    /\ CrFrame

\* `await store.getValue('monitors-list')` settles; an id the list lacks is
\* pushed and the list written back, otherwise the charge is issued
CreateGetSettles(c) ==
    /\ crPc[c] = "get"
    /\ \E outcome \in StoreOutcomes :
         IF outcome.raised
         THEN CreateFails(c, outcome.message)
         ELSE /\ IF ~InList(monitorsList, IdOf(c))
                 THEN /\ crPc' = [crPc EXCEPT ![c] = "setlist"]
                      /\ crList' = [crList EXCEPT ![c] = Append(monitorsList, IdOf(c))]
                 ELSE /\ crPc' = [crPc EXCEPT ![c] = "charge"]
                      /\ crList' = [crList EXCEPT ![c] = monitorsList]
              /\ UNCHANGED <<crSetup, crRet, crWrote>>
              /\ StoreUntouched
    /\ CrFrame

\* `await store.setValue('monitors-list', monitorsList)` settles
CreateListSetSettles(c) ==
    /\ crPc[c] = "setlist"
    /\ \E outcome \in StoreOutcomes :
         IF outcome.raised
         THEN CreateFails(c, outcome.message)
         ELSE /\ crPc' = [crPc EXCEPT ![c] = "charge"]
              /\ monitorsList' = crList[c]
              /\ crWrote' = [crWrote EXCEPT ![c] = @ \cup {"monitors-list"}]
              /\ UNCHANGED <<crSetup, crList, crRet, store, failed, pollHist>>
    /\ CrFrame

\* setupMonitoringSchedule only logs; `await Actor.charge({ eventName:
\* 'monitor-created' })` settles, its failure is only logged, and the call
\* returns the success text
CreateChargeSettles(c) ==
    /\ crPc[c] = "charge"
    /\ \E outcome \in ChargeOutcomes :
         /\ crPc' = [crPc EXCEPT ![c] = "done"]
         /\ crRet' = [crRet EXCEPT ![c] =
                        [kind |-> "returned", value |-> SuccessText(crSetup[c])]]
    /\ UNCHANGED <<crSetup, crList, crWrote>>
    /\ StoreUntouched
    /\ CrFrame

\* ======================================================================
\* The actor's entry point (src/unnamed/part_002, main.js)
\* ======================================================================
VARIABLES
    mnPc,      \* the await the run is suspended at, "exited" or "crashed"
    mnEnv,     \* process.env: which of the two keys are set
    mnInput,   \* what Actor.getInput() resolves to
    mnResult,  \* the action's result or the agent's answer, once there is one
    mnData,    \* the items pushed to the dataset
    mnExit,    \* the exit code of the process, once it ended
    mnLog      \* history: the charge calls and how they settled

mnVars == <<mnPc, mnEnv, mnInput, mnResult, mnData, mnExit, mnLog>>

DirectActions == {"search", "monitor", "check-monitor"}

\* inputs with or without an action (one of the direct ones or another word)
\* and with or without a monitorId
MainInputs ==
    { [k \in keys |-> IF k = "action" THEN a ELSE "m1"] :
        keys \in SUBSET {"action", "monitorId"}, a \in DirectActions \cup {"other"} }

\* what a tool's invoke can do when main calls it: throw (the schema rejects
\* the parameters) or return its text
ToolOutcomes ==
    { [raised |-> TRUE, message |-> Str("Received tool input did not match expected schema")],
      [raised |-> FALSE, value |-> Str("tool result")] }

\* what agent.invoke can do: reject, or resolve to a final state
AgentOutcomes ==
    { [raised |-> TRUE, message |-> Str("Agent run failed")],
      [raised |-> FALSE, messages |-> <<>>],
      [raised |-> FALSE, messages |-> <<[content |-> Str("question")], [content |-> Str("answer")]>>] }

MnInit ==
    /\ mnPc = "init"
    /\ mnEnv \in [APIFY_TOKEN : BOOLEAN, OPENAI_API_KEY : BOOLEAN]
    /\ mnInput \in MainInputs
    /\ mnResult = NoValue
    /\ mnData = <<>>
    /\ mnExit = NoValue
    /\ mnLog = <<>>

MnIdle ==
    /\ mnPc = "idle"
    /\ mnEnv = [APIFY_TOKEN |-> TRUE, OPENAI_API_KEY |-> TRUE]
    /\ mnInput = [action |-> "other"]
    /\ mnResult = NoValue
    /\ mnData = <<>>
    /\ mnExit = NoValue
    /\ mnLog = <<>>

\* `await Actor.exit(code)`: the process ends with the code
MainExit(code, events) ==
    /\ mnPc' = "exited"
    /\ mnExit' = [code |-> code]
    /\ mnLog' = mnLog \o events
    /\ UNCHANGED <<mnEnv, mnInput, mnResult, mnData>>

\* an error no handler catches rejects the module's top-level await: the
\* process ends with code 1
MainCrash ==
    /\ mnPc' = "crashed"
    /\ mnExit' = [code |-> 1]
    /\ UNCHANGED <<mnEnv, mnInput, mnResult, mnData, mnLog>>

\* the run goes on to the next await
MainGoes(to, events) ==
    /\ mnPc' = to
    /\ mnLog' = mnLog \o events
    /\ UNCHANGED <<mnEnv, mnInput, mnData, mnExit>>

\* line 8: `await Actor.init()` settles; then the actor-start charge is issued
MainInitSettles ==
    /\ mnPc = "init"
    /\ \E outcome \in LifecycleOutcomes :
         IF outcome.raised THEN MainCrash
         ELSE MainGoes("startcharge", <<InvokeCharge("actor-start")>>) /\ UNCHANGED mnResult
    /\ UNCHANGED store

\* lines 10-16: the actor-start charge settles; its catch logs the error and
\* awaits Actor.exit(1)
MainStartChargeSettles ==
    /\ mnPc = "startcharge"
    /\ \E outcome \in ChargeOutcomes :
         IF outcome.raised
         THEN MainExit(1, <<SettleOf("charge", outcome)>>)
         ELSE MainGoes("input", <<SettleOf("charge", outcome)>>) /\ UNCHANGED mnResult
    /\ UNCHANGED store

\* lines 42-163: `await Actor.getInput()` settles; the environment is tested
\* and the run takes the direct action or starts the agent
MainGetInputSettles ==
    /\ mnPc = "input"
    /\ \E outcome \in StoreOutcomes :
         IF outcome.raised \/ ~mnEnv.OPENAI_API_KEY \/ ~mnEnv.APIFY_TOKEN
         THEN MainCrash
         ELSE IF "action" \in DOMAIN mnInput /\ mnInput.action \in DirectActions
         THEN IF mnInput.action \in {"search", "monitor"}
              THEN MainGoes("tool", <<>>) /\ UNCHANGED mnResult
              ELSE IF "monitorId" \notin DOMAIN mnInput
              THEN MainExit(1, <<>>)
              ELSE MainGoes("status", <<>>) /\ UNCHANGED mnResult
         ELSE MainGoes("agent", <<>>) /\ UNCHANGED mnResult
    /\ UNCHANGED store

\* lines 54, 68: the tool's invoke settles; a throw is caught at line 156
MainToolSettles ==
    /\ mnPc = "tool"
    /\ \E outcome \in ToolOutcomes :
         IF outcome.raised THEN MainExit(1, <<>>)
         ELSE MainGoes("push", <<>>) /\ mnResult' = outcome.value
    /\ UNCHANGED store

\* line 115: the status text (its frequency and last-checked lines)
StatusText(monitorId, monitorConfig) ==
    <<"Monitor status for ", monitorId, ": - Frequency: ", monitorConfig.frequency,
      " - Last checked: ",
      IF IsNull(monitorConfig.lastChecked) THEN "Never" ELSE monitorConfig.lastChecked>>

\* checkMonitorStatus, lines 96-101: the store is opened and the config read
MainStatusSettles ==
    /\ mnPc = "status"
    /\ \E outcome \in StoreOutcomes :
         IF outcome.raised
         THEN /\ MainGoes("push", <<>>)
              /\ mnResult' = <<"Error checking monitor status: ">> \o outcome.message
         ELSE IF Absent(store[mnInput.monitorId])
         THEN /\ MainGoes("push", <<>>)
              /\ mnResult' = <<"Monitor with ID ", mnInput.monitorId, " not found.">>
         ELSE MainGoes("statuscharge", <<InvokeCharge("task-completed")>>)
              /\ UNCHANGED mnResult
    /\ UNCHANGED store

\* checkMonitorStatus, lines 109-121: the charge settles, its failure is only
\* logged, and the status text is returned
MainStatusChargeSettles ==
    /\ mnPc = "statuscharge"
    /\ \E outcome \in ChargeOutcomes :
         /\ MainGoes("push", <<SettleOf("charge", outcome)>>)
         /\ mnResult' = StatusText(mnInput.monitorId, store[mnInput.monitorId])
    /\ UNCHANGED store

\* line 146: `await Actor.pushData({ action, result })` settles; then the
\* task-completed charge is issued
MainPushSettles ==
    /\ mnPc = "push"
    /\ \E outcome \in StoreOutcomes :
         IF outcome.raised THEN MainExit(1, <<>>)
         ELSE /\ mnPc' = "donecharge"
              /\ mnData' = Append(mnData, [action |-> mnInput.action, result |-> mnResult])
              /\ mnLog' = Append(mnLog, InvokeCharge("task-completed"))
              /\ UNCHANGED <<mnEnv, mnInput, mnResult, mnExit>>
    /\ UNCHANGED store

\* lines 149-155: the charge settles, its failure is only logged, and the run
\* ends with Actor.exit()
MainDoneChargeSettles ==
    /\ mnPc = "donecharge"
    /\ \E outcome \in ChargeOutcomes : MainExit(0, <<SettleOf("charge", outcome)>>)
    /\ UNCHANGED store

\* lines 171-194: agent.invoke settles; without a final message the run ends
\* with Actor.exit(1), otherwise the task-completed charge is issued
MainAgentSettles ==
    /\ mnPc = "agent"
    /\ \E outcome \in AgentOutcomes :
         IF outcome.raised THEN MainExit(1, <<>>)
         ELSE IF Len(outcome.messages) = 0 THEN MainExit(1, <<>>)
         ELSE /\ MainGoes("agentcharge", <<InvokeCharge("task-completed")>>)
              /\ mnResult' = outcome.messages[Len(outcome.messages)].content
    /\ UNCHANGED store

\* lines 193-201: the task-completed charge settles; its catch logs the error
\* and awaits Actor.exit(1), otherwise the answer is pushed
MainAgentChargeSettles ==
    /\ mnPc = "agentcharge"
    /\ \E outcome \in ChargeOutcomes :
         IF outcome.raised
         THEN MainExit(1, <<SettleOf("charge", outcome)>>)
         ELSE MainGoes("agentpush", <<SettleOf("charge", outcome)>>) /\ UNCHANGED mnResult
    /\ UNCHANGED store

\* lines 201-203: `await Actor.pushData({ question, answer })` settles; then
\* the run ends with Actor.exit()
MainAgentPushSettles ==
    /\ mnPc = "agentpush"
    /\ \E outcome \in StoreOutcomes :
         IF outcome.raised THEN MainCrash
         ELSE /\ mnPc' = "exited"
              /\ mnExit' = [code |-> 0]
              /\ mnData' = Append(mnData, [question |-> Str("query"), answer |-> mnResult])
              /\ UNCHANGED <<mnEnv, mnInput, mnResult, mnLog>>
    /\ UNCHANGED store

ExIdle ==
    /\ pc = "idle"
    /\ env = [APIFY_TOKEN |-> TRUE, OPENAI_API_KEY |-> TRUE]
    /\ crit = [source |-> "any", forceFallback |-> FALSE, maxResults |-> 10]
    /\ listings = NoValue
    /\ queue = <<>>
    /\ renderError = NoValue
    /\ doc = NoValue
    /\ ret = Running
    /\ log = <<>>

vars == <<exVars, fnVars, monVars, srVars, ptVars, mnVars, crVars>>

\* one extract call
Init == ExInit /\ FnIdle /\ MonIdle /\ SrIdle /\ PtIdle /\ MnIdle /\ CrIdle
Next ==
    \/ func /\ UNCHANGED <<fnVars, monVars, srVars, ptVars, mnVars, crVars>>
    \/ ActorCallSettles /\ UNCHANGED <<fnVars, monVars, srVars, ptVars, mnVars, crVars>>
    \/ ListItemsSettles /\ UNCHANGED <<fnVars, monVars, srVars, ptVars, mnVars, crVars>>
    \/ ChargeSettles /\ UNCHANGED <<fnVars, monVars, srVars, ptVars, mnVars, crVars>>
    \/ FallbackChargeSettles /\ UNCHANGED <<fnVars, monVars, srVars, ptVars, mnVars, crVars>>
    \/ LoaderLoadSettles /\ UNCHANGED <<fnVars, monVars, srVars, ptVars, mnVars, crVars>>
    \/ ModelInvokeSettles /\ UNCHANGED <<fnVars, monVars, srVars, ptVars, mnVars, crVars>>
    \/ AxiosGetSettles /\ UNCHANGED <<fnVars, monVars, srVars, ptVars, mnVars, crVars>>
Spec == Init /\ [][Next]_vars

\* one extract call in which every external call that was issued settles and
\* the code between two awaits runs to the next one
Progress == <<pc, Len(log)>>
SpecLive == Init /\ [][Next]_vars /\ WF_Progress(Next)

\* one call of the tool from its raw input, with both keys of the environment set
InitBoundary ==
    /\ FnIdle /\ MonIdle /\ SrIdle /\ PtIdle /\ MnIdle /\ CrIdle
    /\ pc = "input"
    /\ env = [APIFY_TOKEN |-> TRUE, OPENAI_API_KEY |-> TRUE]
    /\ crit \in RawInputs
    /\ listings = NoValue
    /\ queue = <<>>
    /\ renderError = NoValue
    /\ doc = NoValue
    /\ ret = Running
    /\ log = <<>>
NextBoundary ==
    \/ invoke /\ UNCHANGED <<fnVars, monVars, srVars, ptVars, mnVars, crVars>>
    \/ func /\ UNCHANGED <<fnVars, monVars, srVars, ptVars, mnVars, crVars>>
    \/ ActorCallSettles /\ UNCHANGED <<fnVars, monVars, srVars, ptVars, mnVars, crVars>>
    \/ ListItemsSettles /\ UNCHANGED <<fnVars, monVars, srVars, ptVars, mnVars, crVars>>
    \/ ChargeSettles /\ UNCHANGED <<fnVars, monVars, srVars, ptVars, mnVars, crVars>>
    \/ FallbackChargeSettles /\ UNCHANGED <<fnVars, monVars, srVars, ptVars, mnVars, crVars>>
    \/ LoaderLoadSettles /\ UNCHANGED <<fnVars, monVars, srVars, ptVars, mnVars, crVars>>
    \/ ModelInvokeSettles /\ UNCHANGED <<fnVars, monVars, srVars, ptVars, mnVars, crVars>>
    \/ AxiosGetSettles /\ UNCHANGED <<fnVars, monVars, srVars, ptVars, mnVars, crVars>>
SpecBoundary == InitBoundary /\ [][NextBoundary]_vars

\* findNewListings applied to every pair of short listing arrays
InitFindNew == ExIdle /\ FnInit /\ MonIdle /\ SrIdle /\ PtIdle /\ MnIdle /\ CrIdle
NextFindNew == FindNew /\ UNCHANGED <<exVars, monVars, srVars, ptVars, mnVars, crVars>>
SpecFindNew == InitFindNew /\ [][NextFindNew]_vars

\* shouldRunMonitor applied to stored configs and times
InitShouldRun == ExIdle /\ FnIdle /\ MonIdle /\ SrInit /\ PtIdle /\ MnIdle /\ CrIdle
NextShouldRun == ShouldRun /\ UNCHANGED <<exVars, fnVars, monVars, ptVars, mnVars, crVars>>
SpecShouldRun == InitShouldRun /\ [][NextShouldRun]_vars

\* processDocumentWithPatterns applied to rendered texts
InitPattern == ExIdle /\ FnIdle /\ MonIdle /\ SrIdle /\ PtInit /\ MnIdle /\ CrIdle
NextPattern == PatternExtract /\ UNCHANGED <<exVars, fnVars, monVars, srVars, mnVars, crVars>>
SpecPattern == InitPattern /\ [][NextPattern]_vars

\* creations and sweeps, one operation at a time
InitMonitor == ExIdle /\ FnIdle /\ SrIdle /\ PtIdle /\ MnIdle /\ CrIdle /\ MonInit /\ ids = {"m1"}
NextOfMonitor ==
    \/ Tick /\ UNCHANGED <<exVars, fnVars, srVars, ptVars, mnVars, crVars>>
    \/ monitorCreate /\ UNCHANGED <<exVars, fnVars, srVars, ptVars, mnVars, crVars>>
    \/ processAllMonitors /\ UNCHANGED <<exVars, fnVars, srVars, ptVars, mnVars, crVars>>
    \/ SweepInitSettles /\ UNCHANGED <<exVars, fnVars, srVars, ptVars, mnVars, crVars>>
    \/ SweepListSettles /\ UNCHANGED <<exVars, fnVars, srVars, ptVars, mnVars, crVars>>
    \/ SweepGetSettles /\ UNCHANGED <<exVars, fnVars, srVars, ptVars, mnVars, crVars>>
    \/ SweepPollSettles /\ UNCHANGED <<exVars, fnVars, srVars, ptVars, mnVars, crVars>>
    \/ SweepNotifySettles /\ UNCHANGED <<exVars, fnVars, srVars, ptVars, mnVars, crVars>>
    \/ SweepSaveSettles /\ UNCHANGED <<exVars, fnVars, srVars, ptVars, mnVars, crVars>>
    \/ SweepExitSettles /\ UNCHANGED <<exVars, fnVars, srVars, ptVars, mnVars, crVars>>
SpecMonitor == InitMonitor /\ [][NextOfMonitor]_vars

\* the same, over times long enough for a weekly monitor to be due again
NextSpacing ==
    \/ NextOfMonitor
    \/ LongTick /\ UNCHANGED <<exVars, fnVars, srVars, ptVars, mnVars, crVars>>
SpecSpacing == InitMonitor /\ [][NextSpacing]_vars

\* sweeps over a list of two monitors, a realtime and a daily one, that were
\* created at time 0; the entry of the first one may have been removed from
\* the store since
InitSweep ==
    /\ ExIdle /\ FnIdle /\ SrIdle /\ PtIdle /\ MnIdle /\ CrIdle
    /\ clock = 0
    /\ \E removed \in BOOLEAN :
         store = [id \in MonitorIds |->
                    IF id = "m1"
                    THEN (IF removed THEN NoValue ELSE monitoringSetup(id, "realtime", 0))
                    ELSE monitoringSetupFor(id, "daily", 0, Str("owner@example.com"))]
    /\ monitorsList = <<"m1", "m2">>
    /\ swPc = "idle"
    /\ swList = <<>>
    /\ swIdx = 0
    /\ swNow = 0
    /\ swCfg = NoValue
    /\ swResult = NoValue
    /\ swCount = [processed |-> 0, updated |-> 0]
    /\ swRet = NoValue
    /\ ids = {}
    /\ ticks = 0
    /\ failed = {}
    /\ pollHist = NoPolls
    /\ swHist = NoHist
NextSweep ==
    \/ Tick /\ UNCHANGED <<exVars, fnVars, srVars, ptVars, mnVars, crVars>>
    \/ processAllMonitors /\ UNCHANGED <<exVars, fnVars, srVars, ptVars, mnVars, crVars>>
    \/ SweepInitSettles /\ UNCHANGED <<exVars, fnVars, srVars, ptVars, mnVars, crVars>>
    \/ SweepListSettles /\ UNCHANGED <<exVars, fnVars, srVars, ptVars, mnVars, crVars>>
    \/ SweepGetSettles /\ UNCHANGED <<exVars, fnVars, srVars, ptVars, mnVars, crVars>>
    \/ SweepPollSettles /\ UNCHANGED <<exVars, fnVars, srVars, ptVars, mnVars, crVars>>
    \/ SweepNotifySettles /\ UNCHANGED <<exVars, fnVars, srVars, ptVars, mnVars, crVars>>
    \/ SweepSaveSettles /\ UNCHANGED <<exVars, fnVars, srVars, ptVars, mnVars, crVars>>
    \/ SweepExitSettles /\ UNCHANGED <<exVars, fnVars, srVars, ptVars, mnVars, crVars>>
SpecSweep == InitSweep /\ [][NextSweep]_vars

\* one run of the actor; the store holds no monitor, or the monitor m1 as it
\* was created
InitMain ==
    /\ ExIdle /\ FnIdle /\ SrIdle /\ PtIdle /\ CrIdle /\ MnInit
    /\ clock = 0
    /\ \E created \in BOOLEAN :
         store = [id \in MonitorIds |->
                    IF created /\ id = "m1" THEN monitoringSetup(id, "daily", 0) ELSE NoValue]
    /\ monitorsList = <<>>
    /\ swPc = "idle"
    /\ swList = <<>>
    /\ swIdx = 0
    /\ swNow = 0
    /\ swCfg = NoValue
    /\ swResult = NoValue
    /\ swCount = [processed |-> 0, updated |-> 0]
    /\ swRet = NoValue
    /\ ids = {}
    /\ ticks = 0
    /\ failed = {}
    /\ pollHist = NoPolls
    /\ swHist = NoHist
MainFrame ==
    UNCHANGED <<exVars, fnVars, srVars, ptVars, crVars, clock, monitorsList, swPc, swList, swIdx,
                swNow, swCfg, swResult, swCount, swRet, ids, ticks, failed, pollHist, swHist>>
NextMain ==
    \/ MainInitSettles /\ MainFrame
    \/ MainStartChargeSettles /\ MainFrame
    \/ MainGetInputSettles /\ MainFrame
    \/ MainToolSettles /\ MainFrame
    \/ MainStatusSettles /\ MainFrame
    \/ MainStatusChargeSettles /\ MainFrame
    \/ MainPushSettles /\ MainFrame
    \/ MainDoneChargeSettles /\ MainFrame
    \/ MainAgentSettles /\ MainFrame
    \/ MainAgentChargeSettles /\ MainFrame
    \/ MainAgentPushSettles /\ MainFrame
SpecMain == InitMain /\ [][NextMain]_vars

\* two callers create monitors with distinct ids at the same time; no sweep
\* runs
InitCreate == ExIdle /\ FnIdle /\ SrIdle /\ PtIdle /\ MnIdle /\ MonInit /\ ids = {} /\ CrInit
NextCreate ==
    \/ (\E c \in Callers : CreateCall(c)) /\ UNCHANGED <<exVars, fnVars, srVars, ptVars, mnVars>>
    \/ (\E c \in Callers : CreateOpenSettles(c)) /\ UNCHANGED <<exVars, fnVars, srVars, ptVars, mnVars>>
    \/ (\E c \in Callers : CreateSetSettles(c)) /\ UNCHANGED <<exVars, fnVars, srVars, ptVars, mnVars>>
    \/ (\E c \in Callers : CreateGetSettles(c)) /\ UNCHANGED <<exVars, fnVars, srVars, ptVars, mnVars>>
    \/ (\E c \in Callers : CreateListSetSettles(c)) /\ UNCHANGED <<exVars, fnVars, srVars, ptVars, mnVars>>
    \/ (\E c \in Callers : CreateChargeSettles(c)) /\ UNCHANGED <<exVars, fnVars, srVars, ptVars, mnVars>>
SpecCreate == InitCreate /\ [][NextCreate]_vars

\* caller c1 creates monitor m1, with any frequency, while sweeps run; m1 is
\* either new or already stored and listed (a realtime monitor created at
\* time 0)
InitOverlap ==
    /\ ExIdle /\ FnIdle /\ SrIdle /\ PtIdle /\ MnIdle /\ CrInit
    /\ clock = 0
    /\ \E created \in BOOLEAN :
         /\ store = [id \in MonitorIds |->
                       IF created /\ id = "m1" THEN monitoringSetup(id, "realtime", 0)
                       ELSE NoValue]
         /\ monitorsList = IF created THEN <<"m1">> ELSE <<>>
    /\ swPc = "idle"
    /\ swList = <<>>
    /\ swIdx = 0
    /\ swNow = 0
    /\ swCfg = NoValue
    /\ swResult = NoValue
    /\ swCount = [processed |-> 0, updated |-> 0]
    /\ swRet = NoValue
    /\ ids = {}
    /\ ticks = 0
    /\ failed = {}
    /\ pollHist = NoPolls
    /\ swHist = NoHist
NextOverlap ==
    \/ CreateCall("c1") /\ UNCHANGED <<exVars, fnVars, srVars, ptVars, mnVars>>
    \/ CreateOpenSettles("c1") /\ UNCHANGED <<exVars, fnVars, srVars, ptVars, mnVars>>
    \/ CreateSetSettles("c1") /\ UNCHANGED <<exVars, fnVars, srVars, ptVars, mnVars>>
    \/ CreateGetSettles("c1") /\ UNCHANGED <<exVars, fnVars, srVars, ptVars, mnVars>>
    \/ CreateListSetSettles("c1") /\ UNCHANGED <<exVars, fnVars, srVars, ptVars, mnVars>>
    \/ CreateChargeSettles("c1") /\ UNCHANGED <<exVars, fnVars, srVars, ptVars, mnVars>>
    \/ processAllMonitors /\ UNCHANGED <<exVars, fnVars, srVars, ptVars, mnVars, crVars>>
    \/ SweepInitSettles /\ UNCHANGED <<exVars, fnVars, srVars, ptVars, mnVars, crVars>>
    \/ SweepListSettles /\ UNCHANGED <<exVars, fnVars, srVars, ptVars, mnVars, crVars>>
    \/ SweepGetSettles /\ UNCHANGED <<exVars, fnVars, srVars, ptVars, mnVars, crVars>>
    \/ SweepPollSettles /\ UNCHANGED <<exVars, fnVars, srVars, ptVars, mnVars, crVars>>
    \/ SweepNotifySettles /\ UNCHANGED <<exVars, fnVars, srVars, ptVars, mnVars, crVars>>
    \/ SweepSaveSettles /\ UNCHANGED <<exVars, fnVars, srVars, ptVars, mnVars, crVars>>
    \/ SweepExitSettles /\ UNCHANGED <<exVars, fnVars, srVars, ptVars, mnVars, crVars>>
SpecOverlap == InitOverlap /\ [][NextOverlap]_vars

\* ======================================================================
\* Properties of one extract call (checked under Spec)
\* ======================================================================
Returned == ret.kind = "returned"
Result == JSONparse(ret.value)

Tier1Attempted == Invocations("upstream") # {}
\* the upstream call or the dataset fetch raised, or the mapper could not
\* process the response
Tier1Failed ==
    Rejections("upstream") # {} \/ Rejections("dataset") # {} \/ Throws("mapper") # {}
RenderFailed == Rejections("render") # {} \/ Throws("render") # {}
HttpFailed == Rejections("http") # {}
MessagesOf(op) ==
    {log[i].message : i \in {j \in 1..Len(log) : log[j].op = op /\ log[j].ev \in {"reject", "throw"}}}

\* C2: every result extract returns, from any tier and on any path, has
\* count equal to the length of listings.
C2_CountIsLength ==
    Returned => Result.count = Len(Result.listings)

\* C2 witness: the pattern sub-tier returned as many listings as its cap of
\* 10 allows.
C2_Witness ==
    /\ Returned
    /\ ret.by = "pattern"
    /\ Result.count = PatternFloor
    /\ Len(Result.listings) = PatternFloor

\* C3 as stated: the call never ends by throwing, whatever the environment.
C3_NeverRaises ==
    pc # "thrown"

\* C3 amended: with APIFY_TOKEN set the call never throws and, whatever the
\* collaborators do, is never stuck short of returning an ExtractionResult;
\* it throws only when APIFY_TOKEN is unset, and then before any tier runs.
C3_RaisesOnlyWithoutToken ==
    /\ pc = "thrown" => (~env.APIFY_TOKEN /\ log = <<>>)
    /\ (env.APIFY_TOKEN /\ ~Returned) => ENABLED Next
    /\ Returned => (env.APIFY_TOKEN /\ {"count", "listings"} \subseteq DOMAIN Result)

\* C3 witness: a call that returned although the upstream, a charge, the
\* render and the HTTP collaborator all failed.
C3_Witness ==
    /\ Returned
    /\ env.APIFY_TOKEN
    /\ Rejections("upstream") # {}
    /\ Rejections("charge") # {}
    /\ Rejections("render") # {}
    /\ Rejections("http") # {}

\* C4: when every attempted tier failed (tier 1 if attempted, the render and
\* the minimal HTTP tier), the result has count 0, no listings and a
\* non-empty error.
C4_AllTiersFailed ==
    (Returned /\ (Tier1Attempted => Tier1Failed) /\ RenderFailed /\ HttpFailed)
        => /\ Result.count = 0
           /\ Result.listings = <<>>
           /\ "error" \in DOMAIN Result
           /\ Result.error # EmptyStr

\* C4 witness: tier 1 was attempted and failed, then the render and the HTTP
\* request failed, and the call returned.
C4_Witness ==
    Returned /\ Tier1Attempted /\ Tier1Failed /\ RenderFailed /\ HttpFailed

\* C5 as stated: when the render tier failed and the minimal HTTP tier then
\* failed too, the returned error contains both failure messages.
C5_ErrorHasBothMessages ==
    (Returned /\ RenderFailed /\ HttpFailed)
        => /\ "error" \in DOMAIN Result
           /\ \A m \in MessagesOf("render") \cup MessagesOf("http") :
                 Contains(Result.error, m)

\* C6 as stated: any tier-1 failure (upstream raising, dataset fetch raising,
\* response or item the mapper cannot process) makes the call attempt the
\* render tier, and no error result of tier 1 itself is returned.
C6_Tier1FailureFallsThrough ==
    (Returned /\ Tier1Failed)
        => /\ Invocations("render") # {}
           /\ ret.by # "tier1"

\* C7 as stated: every result returned from tier 1 has count > 0.
C7_Tier1ResultNonEmpty ==
    (Returned /\ ret.by = "tier1") => Result.count > 0

\* C8: with forceFallback = true the tier-1 upstream client (actor call and
\* dataset fetch) is never invoked.
C8_ForceFallbackSkipsUpstream ==
    crit.forceFallback => (Invocations("upstream") = {} /\ Invocations("dataset") = {})

\* C8 witness: a forceFallback call that ran to its result.
C8_Witness ==
    crit.forceFallback /\ Returned /\ Invocations("render") # {}

\* the criteria give both prices with minPrice above maxPrice, or a negative price
BadPrices(criteria) ==
    \/ /\ {"minPrice", "maxPrice"} \subseteq DOMAIN criteria
       /\ criteria.minPrice > criteria.maxPrice
    \/ "minPrice" \in DOMAIN criteria /\ criteria.minPrice < 0
    \/ "maxPrice" \in DOMAIN criteria /\ criteria.maxPrice < 0

\* C18 as stated (checked under SpecBoundary): criteria with minPrice above
\* maxPrice, or with a negative price, are rejected at the boundary as a
\* validation error, and no tier is attempted for them.
C18_BadPricesRejected ==
    (BadPrices(crit) /\ pc # "input")
        => /\ pc = "thrown"
           /\ ret.message = SchemaMessage
           /\ log = <<>>

\* C19 as stated: the result holds at most maxResults listings, whichever
\* tier produced it.
C19_CountAtMostMaxResults ==
    Returned => Result.count <= crit.maxResults

\* the raw items the dataset fetch resolved to, when it did
Tier1Items ==
    LET hits == {i \in Resolutions("dataset") : "items" \in DOMAIN log[i].value}
    IN  IF hits = {} THEN <<>> ELSE log[CHOOSE i \in hits : TRUE].value.items

\* listing l carries the fields of raw item `item`
FromItem(l, item) ==
    /\ "name" \in DOMAIN item => l.title = item.name
    /\ "detailUrl" \in DOMAIN item => l.url = item.detailUrl
    /\ ("url" \in DOMAIN item /\ "detailUrl" \notin DOMAIN item) => l.url = item.url
    /\ "description" \in DOMAIN item => l.description = item.description

\* C9: forceFallback false and tier 1 succeeding (call, fetch and mapping)
\* with n >= 1 items: count = n, every listing's source is criteria.source,
\* the listings follow the item order, and no later tier is invoked.
C9_Tier1Success ==
    (Returned /\ ~crit.forceFallback /\ Tier1Attempted /\ ~Tier1Failed /\ Len(Tier1Items) >= 1)
        => /\ Result.count = Len(Tier1Items)
           /\ Len(Result.listings) = Len(Tier1Items)
           /\ \A i \in 1..Len(Result.listings) :
                 /\ Result.listings[i].source = Str(crit.source)
                 /\ FromItem(Result.listings[i], Tier1Items[i])
           /\ \A op \in {"render", "model", "http"} : Invocations(op) = {}

\* C9 witness: two different items returned by tier 1, in the adapter's order.
C9_Witness ==
    /\ Returned
    /\ ~crit.forceFallback
    /\ ~Tier1Failed
    /\ Len(Tier1Items) = 2
    /\ Tier1Items[1] # Tier1Items[2]
    /\ Result.count = 2

\* ======================================================================
\* Properties of findNewListings (checked under SpecFindNew)
\* ======================================================================
UrlsOf(list) == {list[i].url : i \in 1..Len(list)}
EmptyUrl(listing) == listing.url = EmptyStr

\* C1 as stated: with a non-empty previous, the result holds no listing whose
\* non-empty url occurs in previous, and holds every empty-url listing of
\* current, whatever previous contains.
C1_EmptyUrlAlwaysNew ==
    (fnPc = "done" /\ Len(fnPrevious) > 0)
        => /\ \A i \in 1..Len(fnResult) :
                 ~EmptyUrl(fnResult[i]) => fnResult[i].url \notin UrlsOf(fnPrevious)
           /\ SelectSeq(fnResult, EmptyUrl) = SelectSeq(fnCurrent, EmptyUrl)

\* C15: with previous empty or absent, findNew returns exactly current, the
\* same listings in the same order.
C15_EmptyPreviousReturnsCurrent ==
    (fnPc = "done" /\ (~fnGiven \/ Len(fnPrevious) = 0)) => fnResult = fnCurrent

\* C15 witness: two listings with the same url are both returned, in order,
\* when no previous listings were passed.
C15_Witness ==
    /\ fnPc = "done"
    /\ ~fnGiven
    /\ Len(fnCurrent) = 2
    /\ fnCurrent[1] # fnCurrent[2]
    /\ fnCurrent[1].url = fnCurrent[2].url
    /\ fnResult = fnCurrent

\* ======================================================================
\* Properties of the sweep (checked under SpecMonitor)
\* ======================================================================
\* the step in which the poll of the current monitor raised: the loop leaves
\* the poll without counting the monitor as processed
PollRaisedStep ==
    swPc = "poll" /\ swPc' # "poll" /\ swCount'.processed = swCount.processed

\* the extraction of the current monitor ended in failure by returning an
\* ExtractionResult that carries an error (all tiers failed)
PollErrored ==
    /\ ~Absent(swResult)
    /\ "error" \in DOMAIN JSONparse(swResult)

\* the step that ends the processing of a monitor whose extraction returned
\* an error result
ErroredMonitorDone ==
    swPc \in {"notify", "save"} /\ swPc' \notin {"notify", "save"} /\ PollErrored

\* the stored config of the current monitor keeps lastChecked and lastResults
KeepsLastCheck ==
    LET id == swList[swIdx]
    IN  /\ store'[id].lastChecked = store[id].lastChecked
        /\ store'[id].lastResults = store[id].lastResults

\* when the poll raises, the per-monitor catch leaves the stored config as it
\* was, and the monitor stays eligible until its config is written again
RaisedPollKeepsConfig ==
    /\ [][PollRaisedStep => store' = store]_vars
    /\ [](\A id \in failed :
            /\ ~Absent(store[id])
            /\ shouldRunMonitor(store[id], clock))

\* C10 as stated: when a monitor's extraction errors during a sweep, by
\* raising or by returning an error result, the stored config keeps its
\* lastChecked and lastResults.
C10_ErroredExtractionKeepsConfig ==
    [][(PollRaisedStep \/ ErroredMonitorDone) => KeepsLastCheck]_vars

\* ----------------------------------------------------------------------
\* the sweep left its loop by returning the counters and is in its finally
SweepReturning == swPc = "exit" /\ "processed" \in DOMAIN swRet

\* the step in which the processing of the current monitor raised (the store
\* read, the poll or the store write)
MonitorRaisedStep ==
    /\ swPc \in {"get", "poll", "notify", "save"}
    /\ swList[swIdx] \notin swHist.errors
    /\ swList[swIdx] \in swHist'.errors

\* C11: a failure while one monitor is processed never aborts the sweep: the
\* loop goes on with the next id of the list or, after the last one, returns
\* the counters; a sweep that returns has read every id of the list.
C11_MonitorFailureIsContained ==
    /\ [][MonitorRaisedStep =>
            IF swIdx < Len(swList)
            THEN swPc' = "get" /\ swIdx' = swIdx + 1 /\ swList' = swList
            ELSE swPc' = "exit" /\ "processed" \in DOMAIN swRet']_vars
    /\ [](SweepReturning => swHist.seen = monitorsList)
    /\ []((swPc = "exit" /\ swHist.errors # {}) => SweepReturning)

\* C11 witness: the first monitor of the list failed and the second one is
\* being polled.
C11_Witness ==
    /\ swPc = "poll"
    /\ swIdx = 2
    /\ swList[1] \in swHist.errors

\* C12 as stated: processed is the number of monitors whose updated config
\* was persisted in this sweep, updated the number of those with new listings.
C12_CountersMatchPersisted ==
    SweepReturning
        => /\ swRet.processed = Cardinality(swHist.saved)
           /\ swRet.updated = Cardinality(swHist.saved \cap swHist.novel)

\* the step in which the store write of the current monitor succeeded
SavedStep ==
    /\ swPc = "save"
    /\ swList[swIdx] \notin swHist.saved
    /\ swList[swIdx] \in swHist'.saved

\* C16: the config persisted after a poll has lastChecked equal to the
\* sweep's time and lastResults equal to the text the poll returned.
C16_PersistedStamp ==
    [][SavedStep =>
         /\ store'[swList[swIdx]].lastChecked = toISOString(swNow)
         /\ store'[swList[swIdx]].lastResults = swResult]_vars

\* C16 witness: a config persisted by a sweep whose time is not the time of
\* the write.
C16_Witness ==
    /\ swPc \in {"get", "exit"}
    /\ clock > swNow
    /\ \E id \in swHist.saved :
         /\ store[id].lastChecked = toISOString(swNow)
         /\ ~IsNull(store[id].lastResults)

\* the interval of a frequency, in minutes
IntervalOf(frequency) ==
    CASE frequency = "realtime" -> RealtimeMinutes
      [] frequency = "daily" -> MinutesPerDay
      [] frequency = "weekly" -> WeekDays * MinutesPerDay

\* C17 as stated: the persisted nextRun is the persisted lastChecked plus the
\* interval of the monitor's frequency.
C17_NextRunFromLastChecked ==
    [][SavedStep =>
         LET saved == store'[swList[swIdx]]
         IN  DateOf(saved.nextRun) = DateOf(saved.lastChecked) + IntervalOf(saved.frequency)]_vars

\* ======================================================================
\* Properties of shouldRunMonitor (checked under SpecShouldRun)
\* ======================================================================
\* C13: a config whose lastChecked is null is eligible, for every frequency
\* (realtime, daily, weekly, unknown or missing) and every time.
C13_NeverCheckedIsEligible ==
    (srPc = "done" /\ IsNull(srCfg.lastChecked)) => srResult

\* C13 witness: a config with lastChecked null and no frequency was found
\* eligible.
C13_Witness ==
    /\ srPc = "done"
    /\ IsNull(srCfg.lastChecked)
    /\ "frequency" \notin DOMAIN srCfg
    /\ srResult

\* the claimed thresholds in minutes: 0.25 h, 24 h, 168 h, and 24 h for any
\* unknown or missing frequency
ClaimedThreshold(config) ==
    IF "frequency" \notin DOMAIN config THEN 24 * MinutesPerHour
    ELSE CASE config.frequency = "realtime" -> MinutesPerHour \div 4
           [] config.frequency = "daily" -> 24 * MinutesPerHour
           [] config.frequency = "weekly" -> 168 * MinutesPerHour
           [] OTHER -> 24 * MinutesPerHour

\* C14: for a config with non-null lastChecked the result is true iff the
\* time elapsed since lastChecked is at least the threshold of its frequency.
C14_EligibleIffThresholdElapsed ==
    (srPc = "done" /\ ~IsNull(srCfg.lastChecked))
        => (srResult <=> srNow - DateOf(srCfg.lastChecked) >= ClaimedThreshold(srCfg))

\* C14 witness: a weekly config found eligible exactly 168 hours after its
\* last check.
C14_Witness ==
    /\ srPc = "done"
    /\ ~IsNull(srCfg.lastChecked)
    /\ "frequency" \in DOMAIN srCfg
    /\ srCfg.frequency = "weekly"
    /\ srNow - DateOf(srCfg.lastChecked) = 168 * MinutesPerHour
    /\ srResult

\* ======================================================================
\* Properties of the pattern sub-tier (checked under SpecPattern)
\* ======================================================================
\* the positions of the tokens of one kind in the text, and the i-th of them
PositionsOf(kind) == {j \in 1..Len(ptContent) : ptContent[j].k = kind}
CountOf(kind) == Cardinality(PositionsOf(kind))
NthOf(kind, i) ==
    ptContent[CHOOSE j \in PositionsOf(kind) :
                Cardinality({m \in PositionsOf(kind) : m <= j}) = i].v

\* N = min(p, max(a,10), max(b,10), max(t,10), max(s,10))
ClaimedN ==
    LET AtLeastTen(n) == IF n >= 10 THEN n ELSE 10
        cands == {CountOf("price"), AtLeastTen(CountOf("address")), AtLeastTen(CountOf("bd")),
                  AtLeastTen(CountOf("ba")), AtLeastTen(CountOf("sqft"))}
    IN  CHOOSE n \in cands : \A m \in cands : n <= m

PatternResult == JSONparse(ptResult)

\* listing i carries the i-th token of the kind, or pad when there is none
Carries(field, kind, i, pad) ==
    field = IF i <= CountOf(kind) THEN NthOf(kind, i) ELSE Str(pad)

\* the number of listings and the fields other than the address
PatternZip ==
    /\ Len(PatternResult.listings) = ClaimedN
    /\ PatternResult.count = ClaimedN
    /\ \A i \in 1..Len(PatternResult.listings) :
         LET l == PatternResult.listings[i]
         IN  /\ l.price = NthOf("price", i)
             /\ Carries(l.details.bedrooms, "bd", i, "Not specified")
             /\ Carries(l.details.bathrooms, "ba", i, "Not specified")
             /\ Carries(l.details.squareFeet, "sqft", i, "Not specified")

\* C20 as stated: N listings, listing i carrying the i-th token of each list
\* or the "Not specified" placeholder for a field whose list is too short.
C20_ZipPadsNotSpecified ==
    ptPc = "done"
        => /\ PatternZip
           /\ \A i \in 1..Len(PatternResult.listings) :
                Carries(PatternResult.listings[i].address, "address", i, "Not specified")

\* C20 amended: as stated, except that a missing address is padded with
\* "Address not specified"; bedrooms, bathrooms and square footage are padded
\* with "Not specified".
C20_ZipPadsPerField ==
    ptPc = "done"
        => /\ PatternZip
           /\ \A i \in 1..Len(PatternResult.listings) :
                Carries(PatternResult.listings[i].address, "address", i, "Address not specified")

\* C20 witness: five addresses and more than ten tokens of every other kind
\* give ten listings, the fifth with the fifth address and the tenth with the
\* padded address.
C20_Witness ==
    /\ ptPc = "done"
    /\ CountOf("price") = ManyTokens
    /\ CountOf("address") = FewTokens
    /\ CountOf("bd") = ManyTokens /\ CountOf("ba") = ManyTokens /\ CountOf("sqft") = ManyTokens
    /\ Len(PatternResult.listings) = PatternFloor
    /\ PatternResult.listings[PatternFloor].address = Str("Address not specified")
    /\ PatternResult.listings[FewTokens].address = NthOf("address", FewTokens)

\* ======================================================================
\* Properties of the actor's run (checked under SpecMain)
\* ======================================================================
\* the step in which a charge call of the run settles by failing
MainChargeFailedStep ==
    /\ Len(mnLog') = Len(mnLog) + 1
    /\ mnLog'[Len(mnLog')].op = "charge"
    /\ mnLog'[Len(mnLog')].ev = "reject"

\* C21 as stated: a failed charge call never ends the run; the run goes on to
\* its next step, and when it exits after the charge it exits with code 0.
C21_ChargeFailureIsNonFatal ==
    [][MainChargeFailedStep => (mnPc' = "exited" => mnExit'.code = 0)]_vars

\* ======================================================================
\* Properties of the model-extraction sub-tier (checked under Spec)
\* ======================================================================
\* the model call resolved, and the text of its reply
ModelReplied == Resolutions("model") # {}
ModelReply == log[CHOOSE i \in Resolutions("model") : TRUE].value

\* the well-formed JSON arrays of one or more objects that occur in the text
BareArrays(text) ==
    { toks \in { SubSeq(text, i, j) : i \in 1..Len(text), j \in 1..Len(text) } :
        /\ IsJsonArray(toks)
        /\ Len(toks) > 2
        /\ \A k \in 1..Len(toks) : toks[k].t = "value" => ~IsNull(toks[k].v) }

\* the reply has no fenced JSON block but holds a bare array of listing objects
BareArrayReply ==
    /\ ModelReplied
    /\ ~FenceMatch(ModelReply).matched
    /\ BareArrays(ModelReply) # {}

\* C22 as stated: a reply without a fenced block that contains a bare,
\* well-formed JSON array of one or more listing objects is parsed: extract
\* returns those listings (count >= 1) from the model sub-tier, and the
\* pattern sub-tier does not run.
C22_BareArrayIsParsed ==
    (Returned /\ BareArrayReply)
        => /\ ret.by = "model"
           /\ Result.count >= 1
           /\ \E toks \in BareArrays(ModelReply) :
                 Result.count = Len(ParsedListings(toks))

\* ======================================================================
\* Properties of the listing mapper (checked under Spec)
\* ======================================================================
\* the value of the first key of keys that is present on the item, whatever
\* the value is; dflt when none is present
FirstPresent(item, keys, dflt) ==
    LET hit == {i \in 1..Len(keys) : keys[i] \in DOMAIN item}
    IN  IF hit = {} THEN dflt
        ELSE item[keys[CHOOSE i \in hit : \A j \in hit : i <= j]]

\* listing l resolves every field of item to its first present synonym
MapsFirstPresent(l, item) ==
    /\ l.title = FirstPresent(item, <<"name", "address">>, Str("Property Listing"))
    /\ l.price = FirstPresent(item, <<"price", "listPrice">>, Str("Price not specified"))
    /\ l.address = FirstPresent(item, <<"address", "streetAddress">>, Str("Address not specified"))
    /\ l.details.bedrooms = FirstPresent(item, <<"bedrooms", "beds">>, Str("Not specified"))
    /\ l.details.bathrooms = FirstPresent(item, <<"bathrooms", "baths">>, Str("Not specified"))
    /\ l.details.squareFeet = FirstPresent(item, <<"livingArea", "sqft">>, Str("Not specified"))
    /\ l.url = FirstPresent(item, <<"detailUrl", "url">>, EmptyStr)

\* C23 as stated: the mapper resolves each field to the value of the first
\* synonym key present on the raw item, the empty string included, and uses
\* the placeholder only when none of the field's keys is present.
C23_FirstPresentSynonymWins ==
    (Returned /\ ret.by = "tier1" /\ ~Tier1Failed)
        => \A i \in 1..Len(Result.listings) :
              MapsFirstPresent(Result.listings[i], Tier1Items[i])

\* every listing of the result is tagged with the source and the word tag
TaggedAs(tag) ==
    \A i \in 1..Len(Result.listings) :
        Result.listings[i].source = <<crit.source, " (", tag, " extraction)">>

\* C24 as stated: every listing returned by the model-extraction sub-tier has
\* source "<source> (model extraction)".
C24_SourceTagModel ==
    (Returned /\ ret.by = "model") => TaggedAs("model")

\* C24 amended: every listing returned by the model-extraction sub-tier has
\* source "<source> (OpenAI extraction)", <source> being criteria.source.
C24_SourceTagOpenAI ==
    (Returned /\ ret.by = "model") => TaggedAs("OpenAI")

\* C24 witness: two listings returned by the model sub-tier for redfin.
C24_Witness ==
    /\ Returned
    /\ ret.by = "model"
    /\ crit.source = "redfin"
    /\ Len(Result.listings) = 2
    /\ TaggedAs("OpenAI")

\* ======================================================================
\* Order of the tiers within one extract call (checked under Spec)
\* ======================================================================
\* the external clients of a call: the upstream actor and its dataset, the
\* renderer, the model and the plain HTTP client
Clients == {"upstream", "dataset", "render", "model", "http"}

\* the invocations of external operations (charges included) that have not
\* settled after the first n events of the log
PendingAt(n) ==
    {i \in 1..n :
        /\ log[i].ev = "invoke"
        /\ ~\E k \in (i + 1)..n :
              log[k].op = log[i].op /\ log[k].ev \in {"resolve", "reject"}}

\* C25: within one call every external client is invoked at most once, and
\* an operation is invoked only when no earlier one is still in progress.
C25_NoRetryNoOverlap ==
    /\ \A op \in Clients : Cardinality(Invocations(op)) <= 1
    /\ \A n \in 1..Len(log) : log[n].ev = "invoke" => PendingAt(n - 1) = {}
    /\ Cardinality(PendingAt(Len(log))) <= 1

\* C25 witness: a call that went through the upstream actor, the renderer and
\* the plain HTTP client, each of them failing, and returned.
C25_Witness ==
    /\ Returned
    /\ Rejections("upstream") # {}
    /\ Rejections("render") # {}
    /\ Rejections("http") # {}
    /\ Cardinality(Invocations("http")) = 1

\* the model sub-tier was entered: the model was called, or the sub-tier
\* failed before its call
ModelAttempted == Invocations("model") # {} \/ Throws("model") # {}

\* C26: the minimal HTTP tier is invoked only in a call whose render failed
\* (it raised, or it loaded no content), and never in a call in which the
\* model or the pattern sub-tier has run.
C26_HttpOnlyAfterRenderFailure ==
    /\ Invocations("http") # {}
          => /\ RenderFailed
             /\ ~ModelAttempted
             /\ Returned => ret.by = "minimal"
    /\ (Returned /\ ret.by \in {"model", "pattern"}) => Invocations("http") = {}

\* C26 witness: the render resolved without a document, and the minimal HTTP
\* tier returned a listing.
C26_Witness ==
    /\ Returned
    /\ ret.by = "minimal"
    /\ Throws("render") # {}
    /\ Resolutions("http") # {}
    /\ Result.count >= 1

\* what the model sub-tier made of the model's reply
ModelListings == processLLMResponse(ModelReply, crit.source, "OpenAI")

\* the model sub-tier failed (before the call, in the call, or on the reply)
\* or yielded no listing
ModelFailedOrEmpty ==
    \/ Throws("model") # {}
    \/ Rejections("model") # {}
    \/ ModelReplied /\ (IsNull(ModelListings) \/ ModelListings.count = 0)

\* C27: the pattern sub-tier runs only after the render returned a document
\* and the model sub-tier was attempted on it and failed or yielded no
\* listing; when the model sub-tier yields one or more listings the pattern
\* sub-tier does not run and the model's listings are returned.
C27_PatternOnlyAfterModel ==
    /\ (Returned /\ ret.by = "pattern")
          => /\ Resolutions("render") # {}
             /\ ~RenderFailed
             /\ ModelAttempted
             /\ ModelFailedOrEmpty
    /\ (Returned /\ ModelReplied /\ ~IsNull(ModelListings) /\ ModelListings.count >= 1)
          => /\ ret.by = "model"
             /\ Result = ModelListings

\* C27 witness: the model answered with an empty array and the pattern
\* sub-tier then built listings from the rendered text.
C27_Witness ==
    /\ Returned
    /\ ret.by = "pattern"
    /\ ModelReplied
    /\ ~IsNull(ModelListings)
    /\ ModelListings.count = 0
    /\ Result.count >= 1

\* ======================================================================
\* Termination of one extract call (checked under SpecLive)
\* ======================================================================
\* C28 as stated: every call eventually returns a result.
C28_EventuallyReturns ==
    <>Returned

\* C28 amended: with APIFY_TOKEN set every call eventually returns a result;
\* with APIFY_TOKEN unset the call ends by throwing, before any external call.
C28_ReturnsOrThrowsAtOnce ==
    <>(IF env.APIFY_TOKEN THEN Returned ELSE pc = "thrown" /\ log = <<>>)

\* C28 witness: the dataset fetch, a charge and the model call failed one
\* after the other, and the call returned the pattern sub-tier's result.
C28_Witness ==
    /\ Returned
    /\ Rejections("dataset") # {}
    /\ Rejections("charge") # {}
    /\ Rejections("model") # {}
    /\ ret.by = "pattern"

\* ======================================================================
\* Order and frame of the sweep (checked under SpecSweep)
\* ======================================================================
\* a monitor of the sweep is being processed
InLoop == swPc \in {"get", "poll", "notify", "save"}

Occurrences(list, id) == Cardinality({i \in 1..Len(list) : list[i] = id})

\* the polls of the sweep as a subsequence of the ids read so far
PolledInOrder ==
    \E keep \in SUBSET (1..Len(swHist.seen)) :
        swHist.polled = SelectSeq(swHist.seen, LAMBDA id : \E i \in keep : swHist.seen[i] = id)

\* C29: within one sweep the ids of monitors-list are read one after the
\* other in list order, each exactly once; a monitor's config is read only
\* when the processing of the monitor before it is over; each monitor is
\* polled at most once.
C29_EachMonitorOnceInOrder ==
    /\ [](InLoop => (swList = monitorsList /\ swHist.seen = SubSeq(swList, 1, swIdx)))
    /\ [](SweepReturning => swHist.seen = monitorsList)
    /\ [](\A id \in MonitorIds : Occurrences(swHist.polled, id) <= 1)
    /\ [](PolledInOrder)
    /\ [][(InLoop /\ swIdx' # swIdx) =>
            /\ swPc \in {"get", "poll", "save"}
            /\ swPc' \in {"get", "exit"}
            /\ swPc' = "get" => swIdx' = swIdx + 1]_vars
    /\ [][store' # store =>
            /\ swPc = "save"
            /\ \A id \in MonitorIds \ {swList[swIdx]} : store'[id] = store[id]]_vars

\* C29 witness: a sweep that polled both monitors of the list, the first
\* before the second, and returned.
C29_Witness ==
    /\ SweepReturning
    /\ swHist.seen = <<"m1", "m2">>
    /\ swHist.polled = <<"m1", "m2">>

\* the fields a sweep may write
SweepFields == {"lastChecked", "lastResults", "nextRun"}

\* the stored config of id differs after the step only in the sweep's fields
OnlySweepFieldsChange(id) ==
    /\ ~Absent(store[id])
    /\ DOMAIN store'[id] = DOMAIN store[id] \cup {"nextRun"}
    /\ \A k \in DOMAIN store[id] \ SweepFields : store'[id][k] = store[id][k]

\* C30: a sweep leaves monitors-list as it is and writes only the config of
\* the monitor whose poll returned, changing only lastChecked, lastResults
\* and nextRun in it; the config of a monitor that was ineligible, missing
\* or whose processing raised is never written.
C30_SweepWritesOnlyPollFields ==
    /\ [][monitorsList' = monitorsList]_vars
    /\ [][\A id \in MonitorIds :
            store'[id] # store[id]
                => /\ swPc = "save"
                   /\ id = swList[swIdx]
                   /\ Occurrences(swHist.polled, id) = 1
                   /\ id \in swHist'.saved
                   /\ OnlySweepFieldsChange(id)]_vars
    /\ [](swHist.saved \cap swHist.errors = {})

\* C30 witness: a sweep found the first monitor missing, polled the second
\* one and wrote its config, which keeps its id, creation time, criteria,
\* frequency and notification address.
C30_Witness ==
    /\ SweepReturning
    /\ Absent(store["m1"])
    /\ swHist.saved = {"m2"}
    /\ "nextRun" \in DOMAIN store["m2"]
    /\ ~IsNull(store["m2"].lastResults)
    /\ \A k \in {"id", "createdAt", "criteria", "frequency", "notificationEmail"} :
          store["m2"][k] = monitoringSetupFor("m2", "daily", 0, Str("owner@example.com"))[k]

\* ======================================================================
\* The error field of a result (checked under Spec)
\* ======================================================================
HasError == "error" \in DOMAIN Result

\* C31: a result returned by extract carries an error field only when it
\* reports empty output: with error present, count = 0 and listings = [].
C31_ErrorImpliesEmpty ==
    (Returned /\ HasError)
        => /\ Result.count = 0
           /\ Result.listings = <<>>

\* C31 witness: the mapper failed on an item after it had mapped one, and the
\* call returned the mapper's error result.
C31_Witness ==
    /\ Returned
    /\ HasError
    /\ ret.by = "tier1"
    /\ Len(Tier1Items) = 2
    /\ ~IsNull(Tier1Items[1])
    /\ IsNull(Tier1Items[2])

\* C36 as stated: whenever extract returns a result with count = 0, the
\* result carries a non-empty error.
C36_EmptyResultHasError ==
    (Returned /\ Result.count = 0)
        => (HasError /\ Result.error # EmptyStr)

\* ======================================================================
\* The fallback-extraction charge (checked under Spec)
\* ======================================================================
FallbackCharges ==
    {i \in 1..Len(log) : log[i] = InvokeCharge("fallback-extraction")}

\* C32 as stated: the fallback-extraction charge is issued exactly once in a
\* call in which tier 1 was attempted and failed, and in no other call
\* (neither when tier 1 succeeds nor when forceFallback enters the fallback).
C32_FallbackChargeOnTier1Failure ==
    /\ Cardinality(FallbackCharges) <= 1
    /\ FallbackCharges # {} => (Tier1Attempted /\ Tier1Failed /\ ~crit.forceFallback)
    /\ (Returned /\ Tier1Attempted /\ Tier1Failed) => Cardinality(FallbackCharges) = 1

\* ======================================================================
\* What a monitor reports as new across sweeps (checked under SpecMonitor)
\* ======================================================================
\* the (id, url) pairs with a non-empty url that the step reports as new: the
\* poll returned and findNewListings found listings to notify about
NewlyReported ==
    IF swPc = "poll" /\ swPc' = "notify"
    THEN LET newListings == findNewListings(JSONparse(swResult').listings,
                                            PreviousListings(swCfg))
         IN  {<<swList[swIdx], newListings[i].url>> :
                i \in {j \in 1..Len(newListings) : newListings[j].url # EmptyStr}}
    ELSE {}

\* C33 as stated: a listing with a non-empty url that a monitor has reported
\* as new is not reported as new again by a later poll of the same monitor,
\* whatever the polls in between returned (a terminal failure result
\* included).
C33_ReportedAsNewOnce ==
    [][NewlyReported \cap pollHist.alerted = {}]_vars

\* ======================================================================
\* Concurrent monitor creation (checked under SpecCreate)
\* ======================================================================
\* caller c's create call returned, and what it reported
CreateReturned(c) == crPc[c] = "done" /\ crRet[c].kind = "returned"
ReportedSuccess(c) ==
    CreateReturned(c) /\ crRet[c].value = SuccessText(crSetup[c])
ReportedError(c) ==
    /\ CreateReturned(c)
    /\ crRet[c].value[1] = "Error setting up monitoring: "

\* C34 as stated: when two creations with distinct ids run concurrently and
\* both report success, both ids are in monitors-list afterwards.
C34_NoIdLost ==
    (\A c \in Callers : ReportedSuccess(c))
        => \A c \in Callers : InList(monitorsList, IdOf(c))

\* ======================================================================
\* A creation that overlaps a sweep (checked under SpecOverlap)
\* ======================================================================
\* C35 as stated: when a creation of a monitor id overlaps a sweep that polls
\* the same id, the sweep's write-back does not overwrite what the creation
\* wrote: once both have finished, the stored criteria and frequency are
\* those given to the creation.
C35_CreateSurvivesSweep ==
    (crPc["c1"] = "done" /\ IdOf("c1") \in crWrote["c1"] /\ swPc = "idle")
        => /\ store[IdOf("c1")].criteria = crSetup["c1"].criteria
           /\ store[IdOf("c1")].frequency = crSetup["c1"].frequency

\* ======================================================================
\* A creation that reports an error (checked under SpecCreate)
\* ======================================================================
\* C37 as stated: when a creation reports an error, the store is unchanged by
\* it: it has written neither the monitor's config nor monitors-list.
C37_ErrorLeavesStoreUnchanged ==
    \A c \in Callers : ReportedError(c) => crWrote[c] = {}

\* ======================================================================
\* The monitors list after creations and sweeps (checked under SpecMonitor)
\* ======================================================================
NoDuplicates(list) ==
    \A i, j \in 1..Len(list) : list[i] = list[j] => i = j

\* C38: after any sequence of non-overlapping creations and sweeps,
\* monitors-list holds no id twice (a creation with an id the list already
\* holds does not extend it) and every id of the list has a stored config.
C38_ListedOnceAndStored ==
    /\ NoDuplicates(monitorsList)
    /\ \A i \in 1..Len(monitorsList) : ~Absent(store[monitorsList[i]])

\* C38 witness: the sweep of time 0 processed m1, which was therefore listed
\* and stored then, and m1 has been created again since; the list holds it
\* once.
C38_Witness ==
    /\ swPc = "idle"
    /\ "processed" \in DOMAIN swRet
    /\ swRet.processed = 1
    /\ swNow = 0
    /\ monitorsList = <<"m1">>
    /\ store["m1"].createdAt.iso > 0

\* ======================================================================
\* The time between two polls of a monitor (checked under SpecSpacing)
\* ======================================================================
\* 0.25 h, 24 h and 168 h in minutes
ThresholdMinutes(frequency) ==
    CASE frequency = "realtime" -> RealtimeMinutes
      [] frequency = "daily" -> MinutesPerDay
      [] frequency = "weekly" -> WeekDays * MinutesPerDay
      [] OTHER -> MinutesPerDay

\* the sweep times of the earlier successful polls of monitor id, a poll
\* being successful when its cycle ran to the end, the write-back included
EarlierPolls(id) == {p[2] : p \in {q \in pollHist.last : q[1] = id}}

\* C39: one sweep at a time and no re-creation in between: two successful
\* polls of a monitor happen in sweeps whose times differ by at least the
\* threshold of the monitor's frequency.
C39_PollsSpacedByThreshold ==
    [][SavedStep =>
         \A t \in EarlierPolls(swList[swIdx]) :
            swNow - t >= ThresholdMinutes(Get(swCfg, "frequency"))]_vars

\* C39 witness: a weekly monitor polled in the sweep of time 0 has been
\* polled again in a sweep exactly a week later, and its config is being
\* written back.
C39_Witness ==
    /\ swPc = "save"
    /\ swList[swIdx] = "m1"
    /\ swCfg.frequency = "weekly"
    /\ EarlierPolls("m1") = {0}
    /\ swNow = WeekDays * MinutesPerDay

====
